---- MODULE Spec2Model ----
(***************************************************************************)
(* A model of pkgbuild.py: the tarball-to-Solaris-package pipeline.        *)
(*                                                                         *)
(* Strings that the program inspects character by character (archive      *)
(* paths, registry keys) are sequences of one-character strings.  Python's *)
(* None is the empty sequence <<>>, a present value x is <<x>>.            *)
(***************************************************************************)
EXTENDS Integers, Sequences, FiniteSets, TLC

VARIABLES
    \* ServiceManifest objects in isolation
    lists,      \* the heap of Python list objects: a sequence of sequences
    descs,      \* the ServiceManifest objects constructed so far
    rendered    \* None, or the descriptor rendered and what generate_manifest wrote

smVars == <<lists, descs, rendered>>

VARIABLES
    \* dispatch and construction of one archive path in isolation
    probe       \* None, or the path, the class chosen and the constructor's outcome

parseVars == <<probe>>

VARIABLES
    \* a PrototypeFile object in isolation
    pf,         \* None, or the PrototypeFile object
    pfCalls     \* the slot calls made on it, in order: slot and line

protoVars == <<pf, pfCalls>>

VARIABLES
    \* the program
    appState,     \* "main" while PkgBuild.main runs, "exited" after sys.exit
    nargs,        \* how many archive paths the invocation was given
    argi,         \* how many of them the loop of PkgBuild.main has taken
    exit_code,    \* None, or the status the process exited with
    reports,      \* what each finished top-level Package.main announced
    stack,        \* the active calls of Package.main, innermost last
    cwd,          \* the current working directory: a sequence of names
    sys_stdout,   \* the stream sys.stdout points at: the console or a log
    sys_stderr,   \* likewise for sys.stderr
    files,        \* the files and directories that exist, outside the staging tree
    openLogs,     \* the log streams that are open
    staging,      \* the tree under TMPDIR/pkg-staging, as a set of entries
    live,         \* the directories of the live system the walk looks at
    gitInstalled, \* whether /usr/bin/git is a file
    env           \* what the machine the program runs on can do: the exit
                  \* statuses of commands, the trees make install leaves,
                  \* the live systems, the sets of tools installed

progVars == <<appState, nargs, argi, exit_code, reports, stack, cwd, sys_stdout,
              sys_stderr, files, openLogs, staging, live, gitInstalled, env>>

notSmVars == <<parseVars, protoVars, progVars>>
notParseVars == <<smVars, protoVars, progVars>>
notProtoVars == <<smVars, parseVars, progVars>>
notProgVars == <<smVars, parseVars, protoVars>>

----------------------------------------------------------------------------
(* Strings *)

None == <<>>

Some(x) == <<x>>

Digits == {"0", "1", "2", "3", "4", "5", "6", "7", "8", "9"}

\* The class [-0-9_.] of the version group (line 484).
VerChars == Digits \cup {"-", "_", "."}

StartsWith(s, p) == /\ Len(p) <= Len(s)
                    /\ SubSeq(s, 1, Len(p)) = p

Drop(s, n) == SubSeq(s, n + 1, Len(s))

\* Python's `needle in haystack` for strings.
Contains(s, p) == \E i \in 0..(Len(s) - Len(p)) : SubSeq(s, i + 1, i + Len(p)) = p

SetMin(S) == CHOOSE x \in S : \A y \in S : x <= y

SetMax(S) == CHOOSE x \in S : \A y \in S : x >= y

s_dash == <<"-">>
s_dot_tar_dot == <<".", "t", "a", "r", ".">>
s_gz == <<"g", "z">>
s_bz2 == <<"b", "z", "2">>
s_xz == <<"x", "z">>
s_dot_gz == <<".", "g", "z">>
s_dot_bz2 == <<".", "b", "z", "2">>
s_dot_xz == <<".", "x", "z">>
s_newline == <<"\n">>

----------------------------------------------------------------------------
(* Package.__init__: the archive-name pattern                              *)
(*   (([^0-9]+?)-([-0-9_.]+))\.tar\.(gz|bz2|xz)+$   applied with re.match  *)

\* The alternatives of the last group.
Exts == {s_gz, s_bz2, s_xz}

\* `$` without re.MULTILINE: the end of the string, or just before a newline
\* that ends the string.
AtDollar(r) == r = <<>> \/ r = s_newline

\* The lengths n such that the first n characters of r are (gz|bz2|xz)+ and
\* `$` matches right after them.
RECURSIVE ExtRunEnds(_)
ExtRunEnds(r) ==
    UNION { LET t == Drop(r, Len(e))
            IN  (IF AtDollar(t) THEN {Len(e)} ELSE {})
                  \cup { Len(e) + n : n \in ExtRunEnds(t) }
          : e \in { x \in Exts : StartsWith(r, x) } }

\* The lengths n such that the first n characters of r match \.tar\.(gz|bz2|xz)+$
TailEnds(r) ==
    IF StartsWith(r, s_dot_tar_dot)
    THEN { Len(s_dot_tar_dot) + n : n \in ExtRunEnds(Drop(r, Len(s_dot_tar_dot))) }
    ELSE {}

\* The positions j at which group 3 may end when group 2 ends at i.
VerEnds(s, i) ==
    { j \in (i + 2)..Len(s) :
        /\ \A k \in (i + 2)..j : s[k] \in VerChars
        /\ TailEnds(Drop(s, j)) # {} }

\* The positions i at which group 2 may end.
NameEnds(s) ==
    { i \in 1..(Len(s) - 1) :
        /\ \A k \in 1..i : s[k] \notin Digits
        /\ s[i + 1] = "-"
        /\ VerEnds(s, i) # {} }

\* The match object of re.match(pattern, tarball): None, or the groups that the
\* backtracking matcher settles on (group 2 lazy, group 3 and the last group
\* greedy).
ReMatchTarball(s) ==
    IF NameEnds(s) = {} THEN None
    ELSE LET i == SetMin(NameEnds(s))
             j == SetMax(VerEnds(s, i))
             n == SetMax(TailEnds(Drop(s, j)))
         IN  Some([ group0 |-> SubSeq(s, 1, j + n),
                    group1 |-> SubSeq(s, 1, j),
                    group2 |-> SubSeq(s, 1, i),
                    group3 |-> SubSeq(s, i + 2, j) ])

----------------------------------------------------------------------------
(* ServiceManifest                                                         *)
(*                                                                         *)
(* A descriptor value carries its two lists inline; a descriptor object    *)
(* (see the variable descs) holds references into the heap of list objects *)
(* instead, because Python lists are shared by reference.                  *)

\* Default of the timeout parameter of set_*_command (lines 243-250).
DefaultTimeout == 60

\* Python truth of an attribute holding None or a (command, timeout) tuple: a
\* 2-tuple is never empty, so only None is false.
TruthyCommand(c) == c # None

\* Python truth of an attribute holding None or a string: None and '' are false.
TruthyString(x) == x # None /\ x[1] # <<>>

\* One fragment appended to dependencies_xml.
Fragment(kind, name, command, timeout) ==
    [kind |-> kind, name |-> name, command |-> command, timeout |-> timeout]

\* method_template % {...} (lines 279-285).
Method(name, command, timeout) == Fragment("exec_method", name, command, timeout)

\* The loop over self.dependencies (lines 306-310): unknown kinds add nothing.
RECURSIVE DependencyFragments(_)
DependencyFragments(deps) ==
    IF deps = <<>> THEN <<>>
    ELSE (IF Head(deps) = "network"
            THEN <<Fragment("dependency", "network", <<>>, 0)>>
          ELSE IF Head(deps) = "filesystem"
            THEN <<Fragment("dependency", "filesystem-local", <<>>, 0)>>
          ELSE <<>>)
         \o DependencyFragments(Tail(deps))

\* The loop over self.config_files (lines 312-315); the fragment's name is derived
\* from the path, which is all the model keeps of it.
RECURSIVE ConfigFragments(_)
ConfigFragments(cfgs) ==
    IF cfgs = <<>> THEN <<>>
    ELSE <<Fragment("config", Head(cfgs), <<>>, 0)>> \o ConfigFragments(Tail(cfgs))

\* CommandMethods with the two tests in the other order: the legacy script is
\* tested before the commands, and the derived refresh/restart are left out.
CommandMethodsScriptFirst(d) ==
    IF TruthyString(d.init_script)
    THEN << Method("start",   <<"%s start">>, 60),
            Method("stop",    <<"%s stop">>, 60),
            Method("refresh", <<"%s stop; %s start">>, 60),
            Method("restart", <<"%s stop; %s start">>, 60) >>
    ELSE IF TruthyCommand(d.start_command) /\ TruthyCommand(d.stop_command)
    THEN << Method("start", d.start_command[1].command, d.start_command[1].timeout),
            Method("stop", d.stop_command[1].command, d.stop_command[1].timeout) >>
    ELSE <<>>

\* The derived command with the timeout of the start command alone instead of
\* the sum.
DerivedCommandStartTimeout(start, stop) ==
    [command |-> start.command \o <<"; ">> \o stop.command,
     timeout |-> start.timeout]

\* The refresh or restart command derived from the start and stop tuples when
\* none was set (lines 335-338 and 347-350): start_command[0] + '; ' +
\* stop_command[0], and the sum of the two timeouts.
DerivedCommand(start, stop) ==
    [command |-> start.command \o <<"; ">> \o stop.command,
     timeout |-> start.timeout + stop.timeout]

\* The method fragments (lines 317-367).  A command is a sequence of pieces of
\* text, so that + is \o.  In the init-script branch the templates '%s start',
\* ... are substituted as they stand: the code applies no % to them.
CommandMethods(d) ==
    IF TruthyCommand(d.start_command) /\ TruthyCommand(d.stop_command)
    THEN LET start == d.start_command[1]
             stop  == d.stop_command[1]
             both  == DerivedCommand(start, stop)
             refresh == IF TruthyCommand(d.refresh_command)
                        THEN d.refresh_command[1] ELSE both
             restart == IF TruthyCommand(d.restart_command)
                        THEN d.restart_command[1] ELSE both
         IN  << Method("start",   start.command,   start.timeout),
                Method("stop",    stop.command,    stop.timeout),
                Method("refresh", refresh.command, refresh.timeout),
                Method("restart", restart.command, restart.timeout) >>
    ELSE IF TruthyString(d.init_script)
    THEN << Method("start",   <<"%s start">>, 60),
            Method("stop",    <<"%s stop">>, 60),
            Method("refresh", <<"%s stop; %s start">>, 60),
            Method("restart", <<"%s stop; %s start">>, 60) >>
    ELSE <<>>

\* generate_manifest (lines 302-375): the text written to the file, as the
\* values substituted into manifest_template.
generate_manifest(d) ==
    [ name         |-> d.name,
      title        |-> d.title,
      service_name |-> d.service_name,
      dependencies |-> DependencyFragments(d.dependencies)
                         \o ConfigFragments(d.config_files)
                         \o CommandMethods(d) ]

\* The exec_method fragments of a rendered manifest, in order.
ExecMethods(m) == SelectSeq(m.dependencies, LAMBDA f : f.kind = "exec_method")

----------------------------------------------------------------------------
(* ServiceManifest objects: construction and the setters                   *)

\* How many descriptors and how long a list the model builds.
MaxDescs == 2
MaxListLen == 2

\* The two list objects made once, when `def __init__` is evaluated
\* (line 225): every construction that omits the argument gets these objects.
DefaultDepsRef == 1
DefaultCfgsRef == 2

InitialLists == << <<"filesystem">>, <<>> >>

DependencyKinds == {"filesystem", "network", "other"}
ConfigPaths == {"/etc/a.conf", "/etc/b.conf"}
\* Explicit list arguments a caller may pass; None stands for an omitted argument.
DepsArgs == {None, Some(<<"filesystem">>), Some(<<"filesystem", "network">>)}
CfgsArgs == {None, Some(<<"/etc/a.conf">>)}
\* init_script arguments: omitted, the empty string, a path.
InitScriptArgs == {None, Some(<<>>), Some(<<"/etc/init.d/svc">>)}
\* The command each setter is given, and the timeouts passed explicitly.
CommandOf == [start |-> <<"A">>, stop |-> <<"B">>, refresh |-> <<"R">>, restart |-> <<"S">>]
Timeouts == {5, 10}

\* __init__ (lines 224-232): the new object and the heap after the call.  An
\* explicit list argument is a new list object; an omitted one is the shared
\* default object.
ServiceManifestInit(heap, deps, cfgs, init) ==
    LET heap1 == IF deps = None THEN heap ELSE Append(heap, deps[1])
        dref  == IF deps = None THEN DefaultDepsRef ELSE Len(heap1)
        heap2 == IF cfgs = None THEN heap1 ELSE Append(heap1, cfgs[1])
        cref  == IF cfgs = None THEN DefaultCfgsRef ELSE Len(heap2)
    IN  [ heap |-> heap2,
          obj  |-> [ name            |-> "svc",
                     title           |-> "Svc",
                     service_name    |-> "application/svc",
                     dependencies    |-> dref,
                     config_files    |-> cref,
                     init_script     |-> init,
                     start_command   |-> None,
                     stop_command    |-> None,
                     refresh_command |-> None,
                     restart_command |-> None ] ]

\* The descriptor value of an object: its lists read through the heap.
Deref(o, heap) ==
    [o EXCEPT !.dependencies = heap[o.dependencies],
              !.config_files = heap[o.config_files]]

SMInit ==
    /\ lists = InitialLists
    /\ descs = <<>>
    /\ rendered = None

\* The first ServiceManifest(...) of a program.
Construct ==
    /\ descs = <<>>
    /\ rendered = None
    /\ \E deps \in DepsArgs, cfgs \in CfgsArgs, init \in InitScriptArgs :
         LET r == ServiceManifestInit(lists, deps, cfgs, init)
         IN  /\ lists' = r.heap
             /\ descs' = Append(descs, r.obj)
    /\ UNCHANGED <<rendered, notSmVars>>

\* A further ServiceManifest(...) while others are alive.
ConstructAnother ==
    /\ Len(descs) \in 1..(MaxDescs - 1)
    /\ rendered = None
    /\ \E deps \in DepsArgs, cfgs \in CfgsArgs, init \in InitScriptArgs :
         LET r == ServiceManifestInit(lists, deps, cfgs, init)
         IN  /\ lists' = r.heap
             /\ descs' = Append(descs, r.obj)
    /\ UNCHANGED <<rendered, notSmVars>>

\* add_dependency (lines 234-235): append to the list object in place.
add_dependency ==
    /\ rendered = None
    /\ \E i \in 1..Len(descs), dep \in DependencyKinds :
         /\ Len(lists[descs[i].dependencies]) < MaxListLen
         /\ lists' = [lists EXCEPT ![descs[i].dependencies] = Append(@, dep)]
    /\ UNCHANGED <<descs, rendered, notSmVars>>

\* add_config_file (lines 237-238).
add_config_file ==
    /\ rendered = None
    /\ \E i \in 1..Len(descs), cfg \in ConfigPaths :
         /\ Len(lists[descs[i].config_files]) < MaxListLen
         /\ lists' = [lists EXCEPT ![descs[i].config_files] = Append(@, cfg)]
    /\ UNCHANGED <<descs, rendered, notSmVars>>

\* set_init_script (lines 240-241).
set_init_script ==
    /\ rendered = None
    /\ \E i \in 1..Len(descs), s \in InitScriptArgs \ {None} :
         descs' = [descs EXCEPT ![i].init_script = s]
    /\ UNCHANGED <<lists, rendered, notSmVars>>

\* The tuple (command, timeout) a setter stores.
CommandTuple(command, timeout) == Some([command |-> command, timeout |-> timeout])

\* set_start_command (lines 243-244), with the timeout given or defaulted.
set_start_command ==
    /\ rendered = None
    /\ \E i \in 1..Len(descs), t \in Timeouts \cup {DefaultTimeout} :
         descs' = [descs EXCEPT ![i].start_command = CommandTuple(CommandOf.start, t)]
    /\ UNCHANGED <<lists, rendered, notSmVars>>

\* set_stop_command (lines 245-246).
set_stop_command ==
    /\ rendered = None
    /\ \E i \in 1..Len(descs), t \in Timeouts \cup {DefaultTimeout} :
         descs' = [descs EXCEPT ![i].stop_command = CommandTuple(CommandOf.stop, t)]
    /\ UNCHANGED <<lists, rendered, notSmVars>>

\* set_refresh_command (lines 247-248).
set_refresh_command ==
    /\ rendered = None
    /\ \E i \in 1..Len(descs), t \in Timeouts \cup {DefaultTimeout} :
         descs' = [descs EXCEPT ![i].refresh_command = CommandTuple(CommandOf.refresh, t)]
    /\ UNCHANGED <<lists, rendered, notSmVars>>

\* set_restart_command (lines 249-250).
set_restart_command ==
    /\ rendered = None
    /\ \E i \in 1..Len(descs), t \in Timeouts \cup {DefaultTimeout} :
         descs' = [descs EXCEPT ![i].restart_command = CommandTuple(CommandOf.restart, t)]
    /\ UNCHANGED <<lists, rendered, notSmVars>>

\* manifest_path (lines 377-380) on one descriptor: render it to its file.  The
\* descriptor is consumed by the call: the program renders a descriptor once,
\* during assembly.
manifest_path ==
    /\ rendered = None
    /\ \E i \in 1..Len(descs) :
         rendered' = Some([ of   |-> Deref(descs[i], lists),
                            text |-> generate_manifest(Deref(descs[i], lists)) ])
    /\ UNCHANGED <<lists, descs, notSmVars>>

----------------------------------------------------------------------------
(* The registry and the dispatcher (PkgBuild, lines 975-995) *)

k_apcupsd == <<"a", "p", "c", "u", "p", "s", "d">>
k_db == <<"d", "b">>
k_dovecot == <<"d", "o", "v", "e", "c", "o", "t">>
k_glib == <<"g", "l", "i", "b">>
k_netatalk == <<"n", "e", "t", "a", "t", "a", "l", "k">>
k_ngircd == <<"n", "g", "i", "r", "c", "d">>
k_ruby_enterprise == <<"r", "u", "b", "y", "-", "e", "n", "t", "e", "r", "p", "r", "i", "s", "e">>

\* The keys of pkgmap (lines 976-984).
Keys == {k_apcupsd, k_db, k_dovecot, k_glib, k_netatalk, k_ngircd, k_ruby_enterprise}

\* pkgmap[key]: the class registered under a key.
pkgmap(key) ==
    CASE key = k_apcupsd -> "Apcupsd"
      [] key = k_db -> "BerkeleyDB"
      [] key = k_dovecot -> "Dovecot"
      [] key = k_glib -> "Glib"
      [] key = k_netatalk -> "Netatalk"
      [] key = k_ngircd -> "Ngircd"
      [] key = k_ruby_enterprise -> "RubyEnterprise"

\* The test of line 990 without the dash: the key alone at the start of the
\* path.
KeyMatchesWithoutDash(key, path) == StartsWith(path, key)

\* The test of line 990 with re.search in place of re.match: the key and the
\* dash anywhere in the path.
KeyMatchesUnanchored(key, path) == Contains(path, key \o s_dash)

\* re.match(key + '-', path) (line 990).  No key holds a character that is
\* special in a pattern, so the pattern matches its own text at the start of
\* the path.
KeyMatches(key, path) == StartsWith(path, key \o s_dash)

\* The keys the loop of lines 989-993 can stop at: it takes the first key, in
\* the dictionary's iteration order, that matches.
MatchingKeys(path) == { key \in Keys : KeyMatches(key, path) }

\* The classes main may construct for a path: the class of a matching key, or
\* Package when the loop ends with found = False (lines 994-995).
Dispatch(path) ==
    IF MatchingKeys(path) = {} THEN {"Package"}
    ELSE { pkgmap(key) : key \in MatchingKeys(path) }

----------------------------------------------------------------------------
(* Package.__init__ and the constructors of the variants *)

\* The outcome of a call: an exception, or a value.
Raised(kind) == [exc |-> Some(kind), value |-> None]

Returned(v) == [exc |-> None, value |-> v]

s_dot_xml == <<".", "x", "m", "l">>
s_google_perftools == <<"g", "o", "o", "g", "l", "e", "-", "p", "e", "r", "f", "t", "o", "o", "l", "s">>
s_google_perftools_1_7 == <<"g", "o", "o", "g", "l", "e", "-", "p", "e", "r", "f", "t", "o", "o", "l", "s", "-", "1", ".", "7">>
s_1_7 == <<"1", ".", "7">>

\* TMPDIR (line 44), as a directory path.
TMPDIR == << <<"t", "m", "p">> >>

\* A file path: the directory (a sequence of names) and the file's name (a
\* sequence of characters).  basename(f) is f.name.
File(dir, name) == [dir |-> dir, name |-> name]

\* The class attributes a variant sets before calling Package.__init__; the
\* class defaults are empty strings (lines 472-478).
Preset(cls) ==
    CASE cls = "Ngircd" ->
           [base |-> <<>>, name |-> <<>>, version |-> <<>>,
            title |-> <<"ngIRCd: Next Generation IRC Daemon">>]
      [] cls = "Dovecot" ->
           [base |-> <<>>, name |-> <<>>, version |-> <<>>,
            title |-> <<"Dovecot: Secure IMAP server">>]
      [] cls = "GooglePerftools" ->
           [base |-> s_google_perftools_1_7, name |-> s_google_perftools,
            version |-> s_1_7, title |-> <<"Google Perftools">>]
      [] OTHER ->
           [base |-> <<>>, name |-> <<>>, version |-> <<>>, title |-> <<>>]

\* Package.__init__ (lines 480-503).  tarball is None or Some(path); an empty
\* path is false in `if tarball:` and is not parsed.  sibling tells whether
\* <cwd>/<name>.xml is a file.
PackageInit(cls, tarball, dir, sibling) ==
    LET pre   == Preset(cls)
        given == tarball # None /\ tarball[1] # <<>>
        match == IF given THEN ReMatchTarball(tarball[1]) ELSE None
    IN  IF given /\ match = None
        THEN Raised("Exception")
        ELSE LET name == IF given THEN match[1].group2 ELSE pre.name
             IN  Returned(
                   [ cls      |-> cls,
                     tarball  |-> IF given THEN match[1].group0 ELSE <<>>,
                     base     |-> IF given THEN match[1].group1 ELSE pre.base,
                     name     |-> name,
                     title    |-> IF given /\ pre.title = <<>> THEN name ELSE pre.title,
                     version  |-> IF given THEN match[1].group3 ELSE pre.version,
                     manifest |-> IF sibling
                                  THEN Some([kind |-> "path",
                                             file |-> File(dir, name \o s_dot_xml)])
                                  ELSE None ])

\* ServiceManifest(name, title, service_name, dependencies, config_files,
\* init_script) as a descriptor value.
Descriptor(name, title, service_name, deps, cfgs, init) ==
    [ name            |-> name,
      title           |-> title,
      service_name    |-> service_name,
      dependencies    |-> deps,
      config_files    |-> cfgs,
      init_script     |-> init,
      start_command   |-> None,
      stop_command    |-> None,
      refresh_command |-> None,
      restart_command |-> None ]

\* The descriptor a variant attaches after Package.__init__ returns
\* (lines 711-716, 752-759, 769-775, 890-896); None for the other classes.
VariantDescriptor(cls, p) ==
    CASE cls = "Apcupsd" ->
           Some(Descriptor(p.name, p.title, "system/ups/apcupsd",
                           <<"filesystem">>,
                           <<"/etc/opt/apcupsd/apcupsd.conf">>,
                           Some(<<"/etc/init.d/apcupsd">>)))
      [] cls = "Netatalk" ->
           Some(Descriptor(p.name, p.title, "network/afp/netatalk",
                           <<"filesystem", "network">>,
                           <<"/etc/netatalk/netatalk.conf", "/etc/netatalk/afpd.conf",
                             "/etc/netatalk/AppleVolumes.default">>,
                           Some(<<"/etc/init.d/netatalk">>)))
      [] cls = "Ngircd" ->
           Some([Descriptor(p.name, p.title, "network/irc/ngircd",
                            <<"filesystem", "network">>,
                            <<"/etc/ngircd.conf">>, None)
                   EXCEPT !.start_command = Some([command |-> <<"/usr/sbin/ngircd">>,
                                                  timeout |-> DefaultTimeout]),
                          !.stop_command  = Some([command |-> <<"/usr/bin/pkill ngircd">>,
                                                  timeout |-> DefaultTimeout])])
      [] cls = "Dovecot" ->
           Some([Descriptor(p.name, p.title, "network/imap/dovecot",
                            <<"filesystem", "network">>,
                            <<"/etc/dovecot/dovecot.conf">>, None)
                   EXCEPT !.start_command = Some([command |-> <<"/usr/sbin/dovecot">>,
                                                  timeout |-> DefaultTimeout]),
                          !.stop_command  = Some([command |-> <<"/usr/sbin/dovecot stop">>,
                                                  timeout |-> DefaultTimeout])])
      [] OTHER -> None

\* cls(app, tarball): Package.__init__, then the variant's own assignments.  A
\* variant's descriptor replaces whatever Package.__init__ stored in
\* self.manifest.
NewPackage(cls, tarball, dir, sibling) ==
    LET r == PackageInit(cls, tarball, dir, sibling)
    IN  IF r.exc # None THEN r
        ELSE LET d == VariantDescriptor(cls, r.value)
             IN  IF d = None THEN r
                 ELSE Returned([r.value EXCEPT
                        !.manifest = Some([kind |-> "ServiceManifest", desc |-> d[1]])])

----------------------------------------------------------------------------
(* Dispatch and construction of one archive path, on its own *)

\* The longest version text the inputs hold.
MaxVerLen == 2

RECURSIVE SeqsUpTo(_, _)
SeqsUpTo(S, n) ==
    IF n = 0 THEN { <<>> }
    ELSE LET shorter == SeqsUpTo(S, n - 1)
         IN  shorter \cup { Append(q, x) : q \in shorter, x \in S }

\* What precedes the version in an input.
InputHeads ==
    { <<>>,
      <<"f", "o", "o">>,
      <<"f", "o", "o", "-", "b", "a", "r">>,
      <<"l", "i", "b", "2">>,
      <<"m", "y", ".", "x", "z">>,
      <<"d", "i", "r", "/", "d", "b">>,
      <<"d", "b">>,
      <<"d", "b", "x">>,
      <<"d", "b", "-", "g", "l", "i", "b">>,
      <<"g", "l", "i", "b">>,
      <<"g", "l", "i", "b", "c">>,
      <<"r", "u", "b", "y">>,
      <<"r", "u", "b", "y", "-", "e", "n", "t", "e", "r", "p", "r", "i", "s", "e">>,
      <<"a", "p", "c", "u", "p", "s", "d">>,
      <<"d", "o", "v", "e", "c", "o", "t">>,
      <<"n", "e", "t", "a", "t", "a", "l", "k">>,
      <<"n", "g", "i", "r", "c", "d">> }

\* The version part of an input: every text over these characters.
InputVersions == SeqsUpTo({"1", ".", "a"}, MaxVerLen)

\* What follows the version in an input.
InputTails ==
    { <<".", "t", "a", "r", ".", "g", "z">>,
      <<".", "t", "a", "r", ".", "b", "z", "2">>,
      <<".", "t", "a", "r", ".", "x", "z">>,
      <<".", "t", "a", "r", ".", "g", "z", "g", "z">>,
      <<".", "t", "a", "r", ".", "x", "z", "b", "z", "2">>,
      <<".", "t", "a", "r", ".", "g", "z", "\n">>,
      <<".", "t", "g", "z">>,
      <<".", "t", "a", "r">>,
      <<"x", "t", "a", "r", ".", "g", "z">>,
      <<".", "t", "a", "r", ".", "g", "z", ".", "s", "i", "g">>,
      <<".", "z", "i", "p">>,
      <<>> }

\* The archive paths construction is tried on.
ParseInputs ==
    { h \o sep \o v \o tl :
        h \in InputHeads, sep \in {<<>>, s_dash}, v \in InputVersions, tl \in InputTails }

\* The directory the program is started in.
StartDir == << <<"w", "o", "r", "k">> >>

ProbeInit == probe = None

\* One iteration of the loop of PkgBuild.main up to the constructor's return
\* (lines 987-995): the class chosen for the path and what constructing it gives.
DispatchArchive ==
    /\ probe = None
    /\ \E path \in ParseInputs, sibling \in BOOLEAN :
         \E cls \in Dispatch(path) :
           probe' = Some([ path   |-> path,
                           cls    |-> cls,
                           result |-> NewPackage(cls, Some(path), StartDir, sibling) ])
    /\ UNCHANGED notParseVars

----------------------------------------------------------------------------
(* PrototypeFile (lines 382-449)                                           *)
(*                                                                         *)
(* The prototype is the sequence of lines written to it; a script is the   *)
(* sequence of lines written to its file, the empty sequence while the     *)
(* file does not exist.                                                    *)

s_i == <<"i", " ">>
s_pkginfo == <<"p", "k", "g", "i", "n", "f", "o">>
s_preinstall == <<"p", "r", "e", "i", "n", "s", "t", "a", "l", "l">>
s_postinstall == <<"p", "o", "s", "t", "i", "n", "s", "t", "a", "l", "l">>
s_preremove == <<"p", "r", "e", "r", "e", "m", "o", "v", "e">>
s_postremove == <<"p", "o", "s", "t", "r", "e", "m", "o", "v", "e">>
s_shebang == <<"#!/bin/sh">>

\* The four lifecycle slots.
Slots == {s_preinstall, s_postinstall, s_preremove, s_postremove}

\* PrototypeFile() (lines 389-390): the prototype is open and empty, no
\* script is open.  scripts holds the slots whose *_fd is set, executable
\* those that close() has made executable.
PrototypeFile ==
    [ open       |-> TRUE,
      lines      |-> <<>>,
      scripts    |-> {},
      text       |-> [slot \in Slots |-> <<>>],
      executable |-> {} ]

\* PrototypeFile.include(name) (lines 444-449), without a path.
IncludeLine(name) == s_i \o name \o s_newline

\* A slot call that writes the include line on every call, not only on the
\* one that opens the script.
ScriptIncludeAlways(proto, name, line) ==
    [proto EXCEPT !.scripts = @ \cup {name},
                  !.text[name] = (IF @ = <<>> THEN <<s_shebang>> ELSE @) \o <<line>>,
                  !.lines = Append(@, IncludeLine(name))]

\* PrototypeFile.preinstall, postinstall, preremove, postremove (lines
\* 413-443): the first call for a slot opens the script, writes '#!/bin/sh'
\* and adds the include line to the prototype; every call writes its line.
Script(proto, name, line) ==
    LET opened == IF name \in proto.scripts THEN proto
                  ELSE [proto EXCEPT !.scripts = @ \cup {name},
                                     !.text[name] = <<s_shebang>>,
                                     !.lines = Append(@, IncludeLine(name))]
    IN  [opened EXCEPT !.text[name] = Append(@, line)]

\* PrototypeFile.close (lines 398-411): every open script is closed and made
\* executable, then the prototype is closed.
close(proto) == [proto EXCEPT !.open = FALSE, !.executable = proto.scripts]

\* How many slot calls the object on its own is given, and the lines they
\* queue.
MaxQueued == 3
ScriptLines == {<<"a">>, <<"b">>}

ProtoInit ==
    /\ pf = None
    /\ pfCalls = <<>>

\* prototype = PrototypeFile()
NewPrototypeFile ==
    /\ pf = None
    /\ pf' = Some(PrototypeFile)
    /\ UNCHANGED <<pfCalls, notProtoVars>>

\* prototype.preinstall(line) (lines 413-419).
preinstall ==
    /\ pf # None
    /\ pf[1].open
    /\ Len(pfCalls) < MaxQueued
    /\ \E line \in ScriptLines :
         /\ pf' = Some(Script(pf[1], s_preinstall, line))
         /\ pfCalls' = Append(pfCalls, [slot |-> s_preinstall, line |-> line])
    /\ UNCHANGED notProtoVars

\* prototype.postinstall(line) (lines 421-427).
postinstall ==
    /\ pf # None
    /\ pf[1].open
    /\ Len(pfCalls) < MaxQueued
    /\ \E line \in ScriptLines :
         /\ pf' = Some(Script(pf[1], s_postinstall, line))
         /\ pfCalls' = Append(pfCalls, [slot |-> s_postinstall, line |-> line])
    /\ UNCHANGED notProtoVars

\* prototype.preremove(line) (lines 429-435).
preremove ==
    /\ pf # None
    /\ pf[1].open
    /\ Len(pfCalls) < MaxQueued
    /\ \E line \in ScriptLines :
         /\ pf' = Some(Script(pf[1], s_preremove, line))
         /\ pfCalls' = Append(pfCalls, [slot |-> s_preremove, line |-> line])
    /\ UNCHANGED notProtoVars

\* prototype.postremove(line) (lines 437-443).
postremove ==
    /\ pf # None
    /\ pf[1].open
    /\ Len(pfCalls) < MaxQueued
    /\ \E line \in ScriptLines :
         /\ pf' = Some(Script(pf[1], s_postremove, line))
         /\ pfCalls' = Append(pfCalls, [slot |-> s_postremove, line |-> line])
    /\ UNCHANGED notProtoVars

\* prototype.include('pkginfo') (line 629), once.
include ==
    /\ pf # None
    /\ pf[1].open
    /\ \A i \in 1..Len(pf[1].lines) : pf[1].lines[i] # IncludeLine(s_pkginfo)
    /\ pf' = Some([pf[1] EXCEPT !.lines = Append(@, IncludeLine(s_pkginfo))])
    /\ UNCHANGED <<pfCalls, notProtoVars>>

\* prototype.close()
ClosePrototypeFile ==
    /\ pf # None
    /\ pf[1].open
    /\ pf' = Some(close(pf[1]))
    /\ UNCHANGED <<pfCalls, notProtoVars>>

----------------------------------------------------------------------------
(* The program: process state, frames of Package.main, external commands *)

s_dot_log == <<".", "l", "o", "g">>
s_dot_pkg == <<".", "p", "k", "g">>
s_build_unix == <<"b", "u", "i", "l", "d", "_", "u", "n", "i", "x">>
s_source == <<"s", "o", "u", "r", "c", "e">>
s_distro == <<"d", "i", "s", "t", "r", "o">>

\* How many archive paths one invocation is given.
MaxArgs == 2

\* The archive paths an invocation may be given: one per registered variant,
\* two for the generic pipeline, one that the pattern rejects.
ArchivePaths ==
    { <<"a", "p", "c", "u", "p", "s", "d", "-", "3", ".", "t", "a", "r", ".", "g", "z">>,
      <<"d", "b", "-", "4", ".", "t", "a", "r", ".", "g", "z">>,
      <<"d", "o", "v", "e", "c", "o", "t", "-", "2", ".", "t", "a", "r", ".", "b", "z", "2">>,
      <<"g", "l", "i", "b", "-", "2", ".", "t", "a", "r", ".", "x", "z">>,
      <<"n", "e", "t", "a", "t", "a", "l", "k", "-", "2", ".", "t", "a", "r", ".", "g", "z">>,
      <<"n", "g", "i", "r", "c", "d", "-", "1", "7", ".", "t", "a", "r", ".", "g", "z">>,
      <<"r", "u", "b", "y", "-", "e", "n", "t", "e", "r", "p", "r", "i", "s", "e", "-", "1", ".", "t", "a", "r", ".", "g", "z">>,
      <<"f", "o", "o", "-", "2", ".", "3", ".", "t", "a", "r", ".", "g", "z">>,
      <<"m", "y", ".", "x", "z", "-", "1", ".", "t", "a", "r", ".", "g", "z">>,
      <<"f", "o", "o", ".", "z", "i", "p">> }

\* Exit statuses of external commands: zero and one non-zero value.
Statuses == {0, 1}

\* The frame on top of the stack: the Package.main call that is executing.
Top == stack[Len(stack)]

InRun == appState = "main" /\ stack # <<>>

At(pc) == InRun /\ Top.pc = pc

\* The frame with a stage recorded as called.
Called(f, stage) == [f EXCEPT !.trace = Append(@, stage)]

\* The frame with steps of package() recorded as taken.
Did(f, steps) == [f EXCEPT !.assembly = @ \o steps]

\* The frame with an external command recorded as having exited.
Ran(f, cmd, status) == [f EXCEPT !.cmds = Append(@, [cmd |-> cmd, status |-> status])]

\* An exception leaves the try block of main (line 659): control goes to the
\* finally clause with the exception pending.
Raise(f, kind) == [f EXCEPT !.pc = "finally", !.exc = Some(kind)]

Goto(f, pc) == [f EXCEPT !.pc = pc]

Failed(f) == f.exc # None

\* shell with the two branches the other way round: a non-zero status returns,
\* a zero status raises.
shellInverted(f, cmd, status) ==
    IF status # 0 THEN Ran(f, cmd, status)
    ELSE Raise(Ran(f, cmd, status), "Exception")

\* shell (lines 200-208): run the command to completion; a non-zero status
\* raises.
shell(f, cmd, status) ==
    IF status = 0 THEN Ran(f, cmd, status)
    ELSE Raise(Ran(f, cmd, status), "Exception")

\* Several shell calls in a row: the first that raises ends the sequence.
RECURSIVE shells(_, _, _)
shells(f, cmds, statuses) ==
    IF cmds = <<>> THEN f
    ELSE LET g == shell(f, Head(cmds), Head(statuses))
         IN  IF Failed(g) THEN g ELSE shells(g, Tail(cmds), Tail(statuses))

\* The exit statuses of n commands.
StatusSeqs(n) == [1..n -> env.statuses]

\* mkreader / mkwriter (lines 182-192): start the command and return one end
\* of a pipe to it.  Nothing waits for the process or reads its status, which
\* the frame records as the status the process ends with, whenever it ends.
Popen(f, cmd, status) ==
    [f EXCEPT !.procs = Append(@, [cmd |-> cmd, running |-> TRUE, status |-> status])]

\* The frame with its process number k known to have ended: its output was
\* read to the end.
Exited(f, k) == [f EXCEPT !.procs[k].running = FALSE]

\* The extracted source tree of a package, a directory beside the archive.
TreeOf(f) == File(f.saved_cwd, f.self.base)

\* TMPDIR/<base>.pkg, the final artifact (lines 650, 684).
ArtifactOf(f) == File(TMPDIR, f.self.base \o s_dot_pkg)

\* The streams sys.stdout and sys.stderr point at when the program starts.
Console == File(<<>>, <<"t", "t", "y">>)

\* The PrototypeFile object before it is constructed.
NoPrototype == [PrototypeFile EXCEPT !.open = FALSE]

\* The first lines of Package.main (lines 653-661), called in directory dir:
\* a new frame, the log opened and the two streams pointed at it.
NewFrame(obj, dir) ==
    [ self        |-> obj,
      pc          |-> "clean",
      save_stdout |-> sys_stdout,
      save_stderr |-> sys_stderr,
      saved_cwd   |-> dir,
      log         |-> File(dir, obj.name \o s_dot_log),
      exc         |-> None,
      path        |-> <<>>,
      prototype   |-> NoPrototype,
      trace       |-> <<>>,
      assembly    |-> <<>>,
      cmds        |-> <<>>,
      procs       |-> <<>>,
      entry       |-> [cwd |-> dir, stdout |-> sys_stdout, stderr |-> sys_stderr] ]

----------------------------------------------------------------------------
(* PkgBuild.main and the stages of Package.main up to the package stage *)

StackWith(f) == [stack EXCEPT ![Len(stack)] = f]

\* The frame after a stage body: at the next stage, unless the body raised.
Then(f, pc) == IF Failed(f) THEN f ELSE Goto(f, pc)

\* One iteration of `for path in args` (lines 987-995) up to the first
\* statements of Package.main (lines 653-661).  An exception of the constructor
\* is not caught in main: run() turns it into exit status 1 (lines 173-179).
\* stale tells whether an extracted tree is left from an earlier build, sibling
\* whether <name>.xml is a file beside the archive.
Start ==
    /\ appState = "main"
    /\ stack = <<>>
    /\ argi < nargs
    /\ argi' = argi + 1
    /\ \E path \in ArchivePaths, sibling \in BOOLEAN, stale \in BOOLEAN :
         \E cls \in Dispatch(path) :
           \E r \in {NewPackage(cls, Some(path), cwd, sibling)} :
               IF r.exc # None
               THEN /\ appState' = "exited"
                    /\ exit_code' = Some(1)
                    /\ UNCHANGED <<stack, sys_stdout, sys_stderr, files, openLogs>>
               ELSE \E f \in {NewFrame(r.value, cwd)} :
                        /\ stack' = <<f>>
                        /\ sys_stdout' = f.log
                        /\ sys_stderr' = f.log
                        /\ openLogs' = openLogs \cup {f.log}
                        /\ files' = files \cup {f.log}
                                      \cup (IF stale THEN {TreeOf(f)} ELSE {})
                                      \cup (IF sibling
                                            THEN {File(cwd, r.value.name \o s_dot_xml)}
                                            ELSE {})
                        /\ UNCHANGED <<appState, exit_code>>
    /\ UNCHANGED <<nargs, reports, cwd, staging, live, gitInstalled, env, notProgVars>>

\* The loop of PkgBuild.main is over: main returns None and run() exits with
\* it (lines 160, 178-179).
Exit ==
    /\ appState = "main"
    /\ stack = <<>>
    /\ argi = nargs
    /\ appState' = "exited"
    /\ exit_code' = Some(0)
    /\ UNCHANGED <<nargs, argi, reports, stack, cwd, sys_stdout, sys_stderr, files,
                   openLogs, staging, live, gitInstalled, env, notProgVars>>

\* clean without the removal: the tree is left where it is.
cleanNothing(p, dir, fs) == fs

\* self.clean() (lines 510-512; GooglePerftools: line 796) on the files fs,
\* called in directory dir.
clean(p, dir, fs) ==
    IF p.cls = "GooglePerftools" THEN fs ELSE fs \ {File(dir, p.base)}

\* The clean stage (line 663).
Clean ==
    /\ At("clean")
    /\ files' = clean(Top.self, cwd, files)
    /\ stack' = StackWith(Goto(Called(Top, "clean"), "unpack"))
    /\ UNCHANGED <<appState, nargs, argi, exit_code, reports, cwd, sys_stdout,
                   sys_stderr, openLogs, staging, live, gitInstalled, env, notProgVars>>

\* The decompression tool unpack picks (lines 517, 524, 531): the first of
\* .xz, .bz2, .gz that occurs anywhere in the archive's path.
Decompressor(tarball) ==
    IF Contains(tarball, s_dot_xz) THEN "xz"
    ELSE IF Contains(tarball, s_dot_bz2) THEN "bzip2"
    ELSE IF Contains(tarball, s_dot_gz) THEN "gzip"
    ELSE "none"

\* The decompression tools, and /usr/bin/<tool> (lines 518, 525, 532).
Tools == {"gzip", "bzip2", "xz"}

ToolFile(tool) == File(<< <<"u", "s", "r">>, <<"b", "i", "n">> >>, <<tool>>)

\* Package.unpack (lines 514-538) on a frame.  archive: the archive is a file;
\* tool: the decompression tool is installed; pipe: tar kept its end of the
\* pipe open while the data was shuttled; dz, tz: the statuses the decompression
\* tool and tar end with; extracted: tar has created the tree by the time chown
\* runs; st: the status of chown, which fails on a tree that is not there.  The
\* decompression tool has ended when its output has been read to the end; tar
\* is left running.
unpack(f, archive, tool, pipe, dz, tz, extracted, st) ==
    LET dec == Decompressor(f.self.tarball)
        k   == Len(f.procs)
        own(g) == shell(g, "chown", IF extracted THEN st ELSE 1)
    IN  IF ~archive THEN Raise(f, "AssertionError")
        ELSE IF dec = "none" THEN own(f)
        ELSE IF ~tool THEN Raise(f, "Exception")
        ELSE LET g == Popen(Popen(f, dec, dz), "tar", tz)
             IN  IF ~pipe THEN Raise(g, "IOError")
                 ELSE own(Exited(g, k + 1))

\* The unpack stage (line 664; GooglePerftools: line 797).
Unpack ==
    /\ At("unpack")
    /\ LET f == Called(Top, "unpack")
       IN  IF f.self.cls = "GooglePerftools"
           THEN /\ stack' = StackWith(Goto(f, "chdir"))
                /\ UNCHANGED files
           ELSE \E archive, pipe, extracted \in BOOLEAN, dz, tz, st \in env.statuses,
                   tool \in {ToolFile(Decompressor(f.self.tarball)) \in files} :
                  /\ stack' = StackWith(Then(unpack(f, archive, tool, pipe, dz, tz,
                                                    extracted, st), "chdir"))
                  /\ files' = IF archive /\ tool /\ pipe /\ extracted
                              THEN files \cup {File(cwd, f.self.base)} ELSE files
    /\ UNCHANGED <<appState, nargs, argi, exit_code, reports, cwd, sys_stdout,
                   sys_stderr, openLogs, staging, live, gitInstalled, env, notProgVars>>

\* os.chdir(self.base) (line 666).  The tree of GooglePerftools comes with the
\* ruby-enterprise sources: present tells whether it is there.
EnterTree ==
    /\ At("chdir")
    /\ \E present \in BOOLEAN :
         LET there == IF Top.self.cls = "GooglePerftools" THEN present
                      ELSE File(cwd, Top.self.base) \in files
         IN  IF there
             THEN /\ cwd' = Append(cwd, Top.self.base)
                  /\ stack' = StackWith(Goto(Top, "prepare"))
             ELSE /\ cwd' = cwd
                  /\ stack' = StackWith(Raise(Top, "OSError"))
    /\ UNCHANGED <<appState, nargs, argi, exit_code, reports, sys_stdout, sys_stderr,
                   files, openLogs, staging, live, gitInstalled, env, notProgVars>>

\* Package.prepare (lines 540-549): four git commands through shell.
prepare(f, statuses) ==
    shells(f, <<"git init", "git add", "git commit", "git gc">>, statuses)

\* The prepare stage when /usr/bin/git is a file (lines 668-669;
\* GooglePerftools: line 798).
Prepare ==
    /\ At("prepare")
    /\ gitInstalled
    /\ LET f == Called(Top, "prepare")
       IN  IF f.self.cls = "GooglePerftools"
           THEN stack' = StackWith(Goto(f, "configure"))
           ELSE \E statuses \in StatusSeqs(4) :
                  stack' = StackWith(Then(prepare(f, statuses), "configure"))
    /\ UNCHANGED <<appState, nargs, argi, exit_code, reports, cwd, sys_stdout,
                   sys_stderr, files, openLogs, staging, live, gitInstalled, env, notProgVars>>

\* Line 668 without its test: prepare is called although /usr/bin/git is not
\* a file.
PrepareUnguarded ==
    /\ At("prepare")
    /\ ~gitInstalled
    /\ stack' = StackWith(Goto(Called(Top, "prepare"), "configure"))
    /\ UNCHANGED <<appState, nargs, argi, exit_code, reports, cwd, sys_stdout,
                   sys_stderr, files, openLogs, staging, live, gitInstalled, env, notProgVars>>

\* Line 668 when /usr/bin/git is not a file.
SkipPrepare ==
    /\ At("prepare")
    /\ ~gitInstalled
    /\ stack' = StackWith(Goto(Top, "configure"))
    /\ UNCHANGED <<appState, nargs, argi, exit_code, reports, cwd, sys_stdout,
                   sys_stderr, files, openLogs, staging, live, gitInstalled, env, notProgVars>>

\* The configure stage of every class but BerkeleyDB and RubyEnterprise
\* (lines 551-552, 718-720, 777-779, 898-900, 957-959): one ./configure.
Configure ==
    /\ At("configure")
    /\ Top.self.cls \notin {"BerkeleyDB", "RubyEnterprise"}
    /\ \E st \in env.statuses :
         stack' = StackWith(Then(shell(Called(Top, "configure"), "configure", st), "build"))
    /\ UNCHANGED <<appState, nargs, argi, exit_code, reports, cwd, sys_stdout,
                   sys_stderr, files, openLogs, staging, live, gitInstalled, env, notProgVars>>

\* BerkeleyDB.configure (lines 741-744): it enters build_unix, if that is a
\* directory, and stays there.
ConfigureBerkeleyDB ==
    /\ At("configure")
    /\ Top.self.cls = "BerkeleyDB"
    /\ \E there \in BOOLEAN, st \in env.statuses :
         LET f == Called(Top, "configure")
         IN  IF there
             THEN /\ cwd' = Append(cwd, s_build_unix)
                  /\ stack' = StackWith(Then(shell(f, "configure", st), "build"))
             ELSE /\ cwd' = cwd
                  /\ stack' = StackWith(Raise(f, "OSError"))
    /\ UNCHANGED <<appState, nargs, argi, exit_code, reports, sys_stdout, sys_stderr,
                   files, openLogs, staging, live, gitInstalled, env, notProgVars>>

\* RubyEnterprise.configure up to perf.main() (lines 805-812): enter source,
\* remember it, enter distro and start the run of GooglePerftools there.  When
\* distro is missing the finally clause (line 814) returns to source.
ConfigureRuby ==
    /\ At("configure")
    /\ Top.self.cls = "RubyEnterprise"
    /\ \E source, distro, sibling \in BOOLEAN :
         LET f    == Called(Top, "configure")
             path == Append(cwd, s_source)
         IN  IF ~source
             THEN /\ stack' = StackWith(Raise(f, "OSError"))
                  /\ UNCHANGED <<cwd, sys_stdout, sys_stderr, files, openLogs>>
             ELSE IF ~distro
             THEN /\ cwd' = path
                  /\ stack' = StackWith(Raise(f, "OSError"))
                  /\ UNCHANGED <<sys_stdout, sys_stderr, files, openLogs>>
             ELSE \E perf \in {NewPackage("GooglePerftools", None,
                                            Append(path, s_distro), sibling).value} :
                    \E g \in {NewFrame(perf, Append(path, s_distro))} :
                      /\ cwd' = g.saved_cwd
                      /\ stack' = Append(StackWith([Goto(f, "configure_perf")
                                                      EXCEPT !.path = path]), g)
                      /\ sys_stdout' = g.log
                      /\ sys_stderr' = g.log
                      /\ openLogs' = openLogs \cup {g.log}
                      /\ files' = files \cup {g.log}
    /\ UNCHANGED <<appState, nargs, argi, exit_code, reports, staging, live,
                   gitInstalled, env, notProgVars>>

\* RubyEnterprise.configure after the run of GooglePerftools (lines 816-855).
\* tcmalloc tells whether /usr/lib/libtcmalloc.a is a file.  The patch process
\* is started and written to; nothing waits for it.
ConfigureRubyRest ==
    /\ At("configure_rest")
    /\ \E tcmalloc \in BOOLEAN, st, pz \in env.statuses :
         LET f == shell(Top, "configure", st)
         IN  stack' = StackWith(IF ~tcmalloc THEN Raise(Top, "SystemExit")
                                ELSE Then(IF Failed(f) THEN f ELSE Popen(f, "patch", pz),
                                          "build"))
    /\ UNCHANGED <<appState, nargs, argi, exit_code, reports, cwd, sys_stdout,
                   sys_stderr, files, openLogs, staging, live, gitInstalled, env, notProgVars>>

\* Glib.build (lines 961-969): make; if that raises, the except clause edits
\* gio/Makefile through perl and runs make again.
GlibBuild(f, statuses) ==
    LET first == shell(f, "make", statuses[1])
    IN  IF ~Failed(first) THEN first
        ELSE shells(Ran(f, "make", statuses[1]), <<"perl", "make">>,
                    <<statuses[2], statuses[3]>>)

\* The build stage (lines 554-556, 857-859, 902-909, 961-969).
Build ==
    /\ At("build")
    /\ \E statuses \in StatusSeqs(3) :
         LET f == Called(Top, "build")
         IN  stack' = StackWith(Then(IF f.self.cls = "Glib" THEN GlibBuild(f, statuses)
                                     ELSE shell(f, "make", statuses[1]),
                                     "ignore_products"))
    /\ UNCHANGED <<appState, nargs, argi, exit_code, reports, cwd, sys_stdout,
                   sys_stderr, files, openLogs, staging, live, gitInstalled, env, notProgVars>>

\* The ignore_products stage when /usr/bin/git is a file (lines 674-675,
\* 558-563; GooglePerftools: line 799).  git ls-files has exited, with a status
\* nothing reads, when its output has been read to the end.
IgnoreProducts ==
    /\ At("ignore_products")
    /\ gitInstalled
    /\ LET f == Called(Top, "ignore_products")
       IN  IF f.self.cls = "GooglePerftools"
           THEN stack' = StackWith(Goto(f, "package"))
           ELSE \E st \in env.statuses :
                  stack' = StackWith(Goto(Exited(Popen(f, "git ls-files", st),
                                                 Len(f.procs) + 1), "package"))
    /\ UNCHANGED <<appState, nargs, argi, exit_code, reports, cwd, sys_stdout,
                   sys_stderr, files, openLogs, staging, live, gitInstalled, env, notProgVars>>

\* Line 674 when /usr/bin/git is not a file.
SkipIgnoreProducts ==
    /\ At("ignore_products")
    /\ ~gitInstalled
    /\ stack' = StackWith(Goto(Top, "package"))
    /\ UNCHANGED <<appState, nargs, argi, exit_code, reports, cwd, sys_stdout,
                   sys_stderr, files, openLogs, staging, live, gitInstalled, env, notProgVars>>

----------------------------------------------------------------------------
(* The staging tree, the live system's directories, os.walk and pkgproto *)

n_etc == <<"e", "t", "c">>
n_init_d == <<"i", "n", "i", "t", ".", "d">>
n_svc == <<"s", "v", "c">>
n_profile == <<"p", "r", "o", "f", "i", "l", "e">>
n_rc0_d == <<"r", "c", "0", ".", "d">>
n_rc1_d == <<"r", "c", "1", ".", "d">>
n_rc2_d == <<"r", "c", "2", ".", "d">>
n_usr == <<"u", "s", "r">>
n_lnk == <<"l", "n", "k">>
n_prog == <<"p", "r", "o", "g">>
s_root == <<"r", "o", "o", "t">>
s_sys == <<"s", "y", "s">>
s_bin == <<"b", "i", "n">>
s_0755 == <<"0", "7", "5", "5">>
s_0775 == <<"0", "7", "7", "5">>
s_0711 == <<"0", "7", "1", "1">>
s_slash == <<"/">>
s_space == <<" ">>
s_none == <<" ", "n", "o", "n", "e", " ">>
s_d_none_root == <<"d", " ", "n", "o", "n", "e", " ", "/", " ">>
s_etc_rc == <<"/", "e", "t", "c", "/", "r", "c">>

\* Owner, group and mode of a directory that make install has just created,
\* and of two directories of the live system.
Created == [owner |-> s_root, group |-> s_root, mode |-> s_0755]
LiveSys == [owner |-> s_root, group |-> s_sys, mode |-> s_0775]
LiveBin == [owner |-> s_bin, group |-> s_bin, mode |-> s_0711]

\* Entries of a tree, by their path below the staging root (the root is <<>>).
\* The target of a symbolic link is absolute or relative to the link's
\* directory.
Dir(path) == [path |-> path, type |-> "d", attr |-> Created, target |-> None]
Plain(path) == [path |-> path, type |-> "f", attr |-> Created, target |-> None]
Link(path, absolute, target) ==
    [path |-> path, type |-> "s", attr |-> Created,
     target |-> Some([absolute |-> absolute, path |-> target])]

Parent(path) == SubSeq(path, 1, Len(path) - 1)

\* The entry at a path of a tree; None when there is none.
EntryAt(tree, path) ==
    IF \E e \in tree : e.path = path
    THEN Some(CHOOSE e \in tree : e.path = path) ELSE None

\* The directories of the live system, as a set of entries.
LiveIsDir(lv, path) == \E e \in lv : e.path = path

\* A link's target as a path: below the staging root for a relative link, on
\* the live system for an absolute one.
TargetPath(e) ==
    IF e.target[1].absolute THEN e.target[1].path
    ELSE Parent(e.path) \o e.target[1].path

\* os.path.isdir on an entry of the staging tree: it follows links.
isdir(e, tree, lv) ==
    \/ e.type = "d"
    \/ /\ e.type = "s"
       /\ IF e.target[1].absolute THEN LiveIsDir(lv, TargetPath(e))
          ELSE \E t \in tree : t.path = TargetPath(e) /\ t.type = "d"

\* os.makedirs(path) on a tree: the directory and its missing ancestors.
makedirs(tree, path) ==
    tree \cup { Dir(SubSeq(path, 1, n)) : n \in { m \in 0..Len(path) :
                  EntryAt(tree, SubSeq(path, 1, m)) = None } }

\* shutil.rmtree(path) on a tree.
rmtree(tree, path) ==
    { e \in tree : ~(Len(e.path) >= Len(path) /\ SubSeq(e.path, 1, Len(path)) = path) }

\* os.listdir: the elements of a set in some order; reverse gives the
\* opposite order.
RECURSIVE Listing(_)
Listing(S) ==
    IF S = {} THEN <<>>
    ELSE LET x == CHOOSE y \in S : TRUE IN <<x>> \o Listing(S \ {x})

Reverse(s) == [i \in 1..Len(s) |-> s[Len(s) + 1 - i]]

listdir(S, reverse) == IF reverse THEN Reverse(Listing(S)) ELSE Listing(S)

\* Lines 617-620 for one entry of dirs: if the same path is a directory of the
\* live system, give the staged entry its owner, group and mode.  os.chown and
\* os.chmod follow a symbolic link: what changes is the link's target, in the
\* staging tree or, for an absolute link, on the live system.
Inherit(path, w) ==
    IF ~LiveIsDir(w.live, path) THEN w
    ELSE LET info == EntryAt(w.live, path)[1].attr
             e    == EntryAt(w.staging, path)[1]
             set(tree, p) == { IF x.path = p THEN [x EXCEPT !.attr = info] ELSE x
                               : x \in tree }
         IN  IF e.type = "s" /\ e.target[1].absolute
             THEN [w EXCEPT !.live = set(@, TargetPath(e))]
             ELSE IF e.type = "s"
             THEN [w EXCEPT !.staging = set(@, TargetPath(e))]
             ELSE [w EXCEPT !.staging = set(@, path)]

RECURSIVE InheritAll(_, _)
InheritAll(paths, w) ==
    IF paths = <<>> THEN w ELSE InheritAll(Tail(paths), Inherit(Head(paths), w))

\* The loop of lines 614-620: os.walk visits the root, then each directory
\* below it before the next sibling; todo holds the directories still to
\* visit.  dirs holds the entries of a directory that isdir accepts, links to
\* directories included; the walk descends only into those that are not links.
RECURSIVE walk(_, _, _)
walk(todo, w, reverse) ==
    IF todo = <<>> THEN w
    ELSE LET root == Head(todo)
             dirs == listdir({ e.path : e \in { x \in w.staging :
                                 /\ x.path # <<>>
                                 /\ Parent(x.path) = root
                                 /\ isdir(x, w.staging, w.live) } }, reverse)
             real(p) == EntryAt(w.staging, p)[1].type = "d"
         IN  walk(SelectSeq(dirs, real) \o Tail(todo), InheritAll(dirs, w), reverse)

\* A path below the root as text: /a/b; the root itself is /.
RECURSIVE Joined(_)
Joined(path) ==
    IF path = <<>> THEN <<>> ELSE s_slash \o Head(path) \o Joined(Tail(path))

PathText(path) == IF path = <<>> THEN s_slash ELSE Joined(path)

\* The line pkgproto prints for an entry of the tree given as <staging>=/.
ProtoLine(e) ==
    <<e.type>> \o s_none \o PathText(e.path)
      \o (IF e.type = "s"
          THEN <<"=">> \o (IF e.target[1].absolute THEN PathText(e.target[1].path)
                           ELSE Tail(Joined(e.target[1].path)))
          ELSE s_space \o e.attr.mode \o s_space \o e.attr.owner
                 \o s_space \o e.attr.group)
      \o s_newline

\* The output of pkgproto <staging>=/: one line per entry, the root included.
pkgproto(tree) == [i \in 1..Cardinality(tree) |-> ProtoLine(Listing(tree)[i])]

\* The test of line 626 with its sense inverted: only root lines are kept.
KeptByFilterInverted(line) == StartsWith(line, s_d_none_root)

\* The test of line 626: re.match('d none / ', line) fails.
KeptByFilter(line) == ~StartsWith(line, s_d_none_root)

----------------------------------------------------------------------------
(* Package.package, the end of Package.main and the return to its caller *)

\* self.manifest as a path (lines 581-584): a ServiceManifest is rendered to
\* TMPDIR/<name>.xml, a sibling file is used as it is.
ManifestFile(p) ==
    IF p.manifest[1].kind = "ServiceManifest" THEN File(TMPDIR, p.name \o s_dot_xml)
    ELSE p.manifest[1].file

ProfileDir == <<n_etc, n_svc, n_profile>>

\* Lines 593-596 without the preremove line.
LifecycleLinesNoPreremove(proto, p, path) ==
    Script(Script(proto,
                  s_postinstall, <<"svccfg import /etc/svc/profile/">> \o path.name),
           s_postremove, <<"svccfg delete ">> \o p.name)

\* Lines 593-596: one line for each of postinstall, preremove and postremove;
\* path is the manifest that was copied.
LifecycleLines(proto, p, path) ==
    Script(Script(Script(proto,
                         s_postinstall, <<"svccfg import /etc/svc/profile/">> \o path.name),
                  s_preremove, <<"svcadm disable ">> \o p.name),
           s_postremove, <<"svccfg delete ">> \o p.name)

\* Lines 569-596: the staging area is recreated, the prototype is opened and
\* the manifest, if there is one, is copied into etc/svc/profile and its three
\* lifecycle scripts are started.  copied tells whether shutil.copy succeeds;
\* when it raises, line 591 is not reached and a rendered manifest stays in
\* TMPDIR.
PackageStaging ==
    /\ At("package")
    /\ \E copied \in BOOLEAN :
         LET f     == Called(Top, "package")
             p     == f.self
             fresh == makedirs({}, <<>>)
             proto == PrototypeFile
             tmp   == p.manifest[1].kind = "ServiceManifest"
             path  == ManifestFile(p)
             q     == [p EXCEPT !.manifest = Some([kind |-> "path", file |-> path])]
         IN  IF p.manifest = None
             THEN /\ staging' = fresh
                  /\ stack' = StackWith([Goto(f, "install") EXCEPT !.prototype = proto])
                  /\ UNCHANGED files
             ELSE IF ~copied
             THEN /\ staging' = makedirs(fresh, ProfileDir)
                  /\ stack' = StackWith(Raise([f EXCEPT !.self = q, !.prototype = proto],
                                              "IOError"))
                  /\ files' = IF tmp THEN files \cup {path} ELSE files
             ELSE /\ staging' = makedirs(fresh, ProfileDir)
                                  \cup {Plain(Append(ProfileDir, path.name))}
                  /\ stack' = StackWith([Goto(f, "install") EXCEPT
                                           !.self = q,
                                           !.prototype = LifecycleLines(proto, p, path)])
                  /\ files' = IF tmp THEN files \ {path} ELSE files
    /\ UNCHANGED <<appState, nargs, argi, exit_code, reports, cwd, sys_stdout,
                   sys_stderr, openLogs, live, gitInstalled, env, notProgVars>>

\* What make install may put below the staging root: usr/prog always, and,
\* by kind of tree: nothing more; an init script named after base
\* (<name>-<version>); an init script named after the package; the three
\* run-level directories; a relative link to usr; an absolute link to /usr.
TreeKinds == {"plain", "init", "script", "rc", "link", "abslink"}

InstallTree(kind, p) ==
    {Dir(<<n_usr>>), Plain(<<n_usr, n_prog>>)} \cup
    CASE kind = "init" -> {Dir(<<n_etc>>), Dir(<<n_etc, n_init_d>>),
                           Plain(<<n_etc, n_init_d, p.base>>)}
      [] kind = "script" -> {Dir(<<n_etc>>), Dir(<<n_etc, n_init_d>>),
                             Plain(<<n_etc, n_init_d, p.name>>)}
      [] kind = "rc" -> {Dir(<<n_etc>>), Dir(<<n_etc, n_rc0_d>>), Dir(<<n_etc, n_rc1_d>>),
                         Dir(<<n_etc, n_rc2_d>>)}
      [] kind = "link" -> {Link(<<n_lnk>>, FALSE, <<n_usr>>)}
      [] kind = "abslink" -> {Link(<<n_lnk>>, TRUE, <<n_usr>>)}
      [] OTHER -> {}

\* self.install(staging) (lines 565-567; RubyEnterprise: lines 861-880, where
\* the finally clause returns to the directory it left; Dovecot: lines
\* 911-922).  rubygems tells whether ../rubygems is a directory.
install(f, statuses, rubygems) ==
    LET made == shell(f, "make install", statuses[1])
    IN  IF f.self.cls # "RubyEnterprise" \/ Failed(made) THEN made
        ELSE IF ~rubygems THEN Raise(made, "OSError")
        ELSE shell(made, "ruby setup.rb", statuses[2])

\* Lines 603-609: install, then the synthesis of a descriptor when none is
\* attached and etc/init.d/<base> is a file: the expression
\* 'etc/init.d' % self.base of line 609 raises TypeError.
Install ==
    /\ At("install")
    /\ \E statuses \in StatusSeqs(2), rubygems \in BOOLEAN,
          kind \in env.trees :
         LET f      == install(Did(Top, <<"install">>), statuses, rubygems)
             staged == IF statuses[1] = 0
                       THEN staging \cup InstallTree(kind, Top.self) ELSE staging
             script == EntryAt(staged, <<n_etc, n_init_d, f.self.base>>)
         IN  /\ staging' = staged
             /\ stack' = StackWith(
                  IF Failed(f) THEN f
                  ELSE IF f.self.manifest = None /\ script # None /\ script[1].type = "f"
                  THEN Raise(f, "TypeError")
                  ELSE Goto(f, "walk"))
    /\ UNCHANGED <<appState, nargs, argi, exit_code, reports, cwd, sys_stdout,
                   sys_stderr, files, openLogs, live, gitInstalled, env, notProgVars>>

\* The directories of the live system that matter to the walk, with distinct
\* attributes: any subset of /etc, /usr and /lnk.
LiveSystems ==
    SUBSET { [Dir(<<n_etc>>) EXCEPT !.attr = LiveSys],
             [Dir(<<n_usr>>) EXCEPT !.attr = LiveSys],
             [Dir(<<n_lnk>>) EXCEPT !.attr = LiveBin] }

\* Lines 614-620 on the staging tree, against the live system as it is found.
Walk ==
    /\ At("walk")
    /\ \E lv \in env.lives, reverse \in BOOLEAN :
         LET w == walk(<< <<>> >>, [staging |-> staging, live |-> lv], reverse)
         IN  /\ staging' = w.staging
             /\ live' = w.live
    /\ stack' = StackWith(Goto(Did(Top, <<"walk">>), "pkgproto"))
    /\ UNCHANGED <<appState, nargs, argi, exit_code, reports, cwd, sys_stdout,
                   sys_stderr, files, openLogs, gitInstalled, env, notProgVars>>

\* Lines 625-629: the lines of pkgproto that the filter keeps are written to
\* the prototype, then the include line of pkginfo.  pkgproto has exited, with
\* a status nothing reads, when its output has been read to the end.
Pkgproto ==
    /\ At("pkgproto")
    /\ \E st \in env.statuses :
         LET f == Did(Exited(Popen(Top, "pkgproto", st), Len(Top.procs) + 1),
                      <<"pkgproto", "include pkginfo">>)
         IN  stack' = StackWith([Goto(f, "hooks") EXCEPT
                         !.prototype.lines =
                            @ \o SelectSeq(pkgproto(staging), KeptByFilter)
                              \o <<IncludeLine(s_pkginfo)>>])
    /\ UNCHANGED <<appState, nargs, argi, exit_code, reports, cwd, sys_stdout,
                   sys_stderr, files, openLogs, staging, live, gitInstalled, env, notProgVars>>

\* Dovecot.extend_prototype (lines 924-950): lines for postinstall and
\* postremove.
extend_prototype(proto) ==
    Script(Script(proto, s_postinstall, <<"useradd dovecot; useradd dovenull; pam.conf">>),
           s_postremove, <<"userdel dovecot; userdel dovenull; pam.conf">>)

RunLevelDirs == {<<n_etc, n_rc0_d>>, <<n_etc, n_rc1_d>>, <<n_etc, n_rc2_d>>}

\* The rewriting of the prototype in Apcupsd.edit_prototype (lines 727-733).
edit_prototype(proto) ==
    LET kept(line) == ~Contains(line, s_etc_rc)
    IN  [proto EXCEPT !.lines = SelectSeq(@, kept)]

\* Lines 630-638 with prototype.close() first and the extend hook after it.
HookStepsCloseFirst(cls) ==
    <<"close">>
      \o (IF cls = "Dovecot" THEN <<"extend_prototype">> ELSE <<>>)
      \o (IF cls = "Apcupsd" THEN <<"edit_prototype">> ELSE <<>>)
      \o <<"pkginfo">>

\* The steps of lines 630-638 for a class: maybe_call (lines 505-508) calls
\* a hook only if the class defines it; Dovecot defines extend_prototype (line
\* 923), Apcupsd edit_prototype (line 722).
HookSteps(cls) ==
    (IF cls = "Dovecot" THEN <<"extend_prototype">> ELSE <<>>)
      \o <<"close">>
      \o (IF cls = "Apcupsd" THEN <<"edit_prototype">> ELSE <<>>)
      \o <<"pkginfo">>

\* Lines 630-638: the extend_prototype hook, prototype.close(), the
\* edit_prototype hook, pkginfo.  Apcupsd.edit_prototype (lines 722-733)
\* removes the three run-level directories first; shutil.rmtree raises when
\* one of them is missing.
Hooks ==
    /\ At("hooks")
    /\ LET cls    == Top.self.cls
           steps  == HookSteps(cls)
           f      == Did(Top, steps)
           ext    == IF cls = "Dovecot" THEN extend_prototype(f.prototype)
                     ELSE f.prototype
           closed == close(ext)
       IN  IF cls # "Apcupsd"
           THEN /\ stack' = StackWith([Goto(f, "mkpkg") EXCEPT !.prototype = closed])
                /\ UNCHANGED staging
           ELSE IF \E d \in RunLevelDirs : EntryAt(staging, d) = None
           THEN /\ stack' = StackWith(Raise([Did(Top, SubSeq(steps, 1, Len(steps) - 1))
                                                EXCEPT !.prototype = closed], "OSError"))
                /\ staging' = IF EntryAt(staging, <<n_etc, n_rc0_d>>) = None THEN staging
                              ELSE rmtree(staging, <<n_etc, n_rc0_d>>)
           ELSE /\ stack' = StackWith([Goto(f, "mkpkg") EXCEPT
                                          !.prototype = edit_prototype(closed)])
                /\ staging' = { e \in staging : e.path \notin RunLevelDirs }
    /\ UNCHANGED <<appState, nargs, argi, exit_code, reports, cwd, sys_stdout,
                   sys_stderr, files, openLogs, live, gitInstalled, env, notProgVars>>

\* mkpkg (lines 647-650): pkgmk, then pkgtrans.
mkpkg(f, statuses) == shells(f, <<"pkgmk", "pkgtrans">>, statuses)

\* Lines 643-645.  made tells whether pkgtrans, having exited with status 0,
\* has left the artifact in TMPDIR.  The end of package ends the try block.
Mkpkg ==
    /\ At("mkpkg")
    /\ \E statuses \in StatusSeqs(2), made \in BOOLEAN :
         LET f == mkpkg(Did(Top, <<"mkpkg">>), statuses)
         IN  IF Failed(f)
             THEN /\ stack' = StackWith(f)
                  /\ UNCHANGED <<files, staging>>
             ELSE /\ stack' = StackWith(Goto(Did(f, <<"rmtree">>), "finally"))
                  /\ files' = IF made THEN files \cup {ArtifactOf(f)} ELSE files
                  /\ staging' = {}
    /\ UNCHANGED <<appState, nargs, argi, exit_code, reports, cwd, sys_stdout,
                   sys_stderr, openLogs, live, gitInstalled, env, notProgVars>>

\* The finally clause without its os.chdir(cwd).
RestoredCwdForgotten(f) == cwd

\* The directory the finally clause returns to (line 682).
RestoredCwd(f) == f.saved_cwd

\* The finally clause of main and the end of its with block (lines 679-682):
\* both streams and the directory are put back and the log is closed, whether
\* or not an exception is pending.
Finally ==
    /\ At("finally")
    /\ sys_stdout' = Top.save_stdout
    /\ sys_stderr' = Top.save_stderr
    /\ cwd' = RestoredCwd(Top)
    /\ openLogs' = openLogs \ {Top.log}
    /\ stack' = StackWith(Goto(Top, IF Failed(Top) THEN "raised" ELSE "wrapup"))
    /\ UNCHANGED <<appState, nargs, argi, exit_code, reports, files, staging, live,
                   gitInstalled, env, notProgVars>>

\* Lines 684-701, reached when nothing was raised: if the artifact is a file
\* it is copied beside the archive, the artifact and the log are removed and
\* clean is called again; otherwise the failure is reported.
WrapUp ==
    /\ At("wrapup")
    /\ LET f     == Top
           built == ArtifactOf(f) \in files
       IN  /\ reports' = Append(reports, [base |-> f.self.base,
                                          outcome |-> IF built THEN "built" ELSE "FAILED"])
           /\ files' = IF built
                       THEN clean(f.self, cwd,
                                  (files \cup {File(cwd, ArtifactOf(f).name)})
                                     \ {ArtifactOf(f), f.log})
                       ELSE files
           /\ stack' = StackWith(Goto(IF built THEN Called(f, "clean") ELSE f, "returned"))
    /\ UNCHANGED <<appState, nargs, argi, exit_code, cwd, sys_stdout, sys_stderr,
                   openLogs, staging, live, gitInstalled, env, notProgVars>>

\* main has returned.  Its caller is the loop of PkgBuild.main (line 995),
\* which goes on, or RubyEnterprise.configure (lines 812-814), whose finally
\* clause returns to the source directory before the rest of configure.
Return ==
    /\ At("returned")
    /\ IF Len(stack) = 1
       THEN /\ stack' = <<>>
            /\ UNCHANGED cwd
       ELSE LET caller == stack[Len(stack) - 1]
            IN  /\ stack' = <<Goto(caller, "configure_rest")>>
                /\ cwd' = caller.path
    /\ UNCHANGED <<appState, nargs, argi, exit_code, reports, sys_stdout, sys_stderr,
                   files, openLogs, staging, live, gitInstalled, env, notProgVars>>

\* An exception leaves main.  In RubyEnterprise.configure the finally clause
\* (line 814) returns to the source directory and the exception goes on into
\* the try block of the outer main.  In PkgBuild.main nothing catches it:
\* run() ends the process with status 1 (lines 165-179), also for the
\* SystemExit of sys.exit(1).
Unwind ==
    /\ At("raised")
    /\ IF Len(stack) = 1
       THEN /\ stack' = <<>>
            /\ appState' = "exited"
            /\ exit_code' = Some(1)
            /\ UNCHANGED cwd
       ELSE LET caller == stack[Len(stack) - 1]
            IN  /\ stack' = <<Raise(caller, Top.exc[1])>>
                /\ cwd' = caller.path
                /\ UNCHANGED <<appState, exit_code>>
    /\ UNCHANGED <<nargs, argi, reports, sys_stdout, sys_stderr, files, openLogs,
                   staging, live, gitInstalled, env, notProgVars>>

----------------------------------------------------------------------------
(* Specifications *)

vars == <<smVars, parseVars, protoVars, progVars>>

\* The state in which pkgbuild starts: argc archive paths on the command line,
\* /usr/bin/git a file or not, on a machine e with one of its sets of
\* decompression tools installed.
ProgInit(argc, git, e) ==
    /\ appState = "main"
    /\ nargs \in argc
    /\ argi = 0
    /\ exit_code = None
    /\ reports = <<>>
    /\ stack = <<>>
    /\ cwd = StartDir
    /\ sys_stdout = Console
    /\ sys_stderr = Console
    /\ files \in { { ToolFile(tool) : tool \in installed } : installed \in e.tools }
    /\ openLogs = {}
    /\ staging = {}
    /\ live = {}
    /\ gitInstalled \in git
    /\ env = e

\* A machine on which every command may end with either status, make install
\* leaves the plain tree, the live system has none of the directories the
\* walk looks for and the three decompression tools are installed.
AnyStatus == [statuses |-> Statuses, trees |-> {"plain"}, lives |-> {{}}, tools |-> {Tools}]

\* The same machine with all the tools, with all but gzip, or with none.
AnyTools == [AnyStatus EXCEPT !.tools = {Tools, Tools \ {"gzip"}, {}}]

\* A machine on which every command ends with status 0 and make install may
\* leave any of the trees on any of the live systems.
AnyTree == [statuses |-> {0}, trees |-> TreeKinds, lives |-> LiveSystems,
            tools |-> {Tools}]

\* The program has not been started.
ProgIdle == ProgInit({0}, {FALSE}, AnyStatus)

\* The program: one invocation of pkgbuild with up to MaxArgs archive paths.
Next ==
    \/ Start
    \/ Exit
    \/ Clean
    \/ Unpack
    \/ EnterTree
    \/ Prepare
    \/ SkipPrepare
    \/ Configure
    \/ ConfigureBerkeleyDB
    \/ ConfigureRuby
    \/ ConfigureRubyRest
    \/ Build
    \/ IgnoreProducts
    \/ SkipIgnoreProducts
    \/ PackageStaging
    \/ Install
    \/ Walk
    \/ Pkgproto
    \/ Hooks
    \/ Mkpkg
    \/ Finally
    \/ WrapUp
    \/ Return
    \/ Unwind

\* One archive path, commands that may fail.
Init == SMInit /\ ProbeInit /\ ProtoInit /\ ProgInit({1}, BOOLEAN, AnyTools)

Spec == Init /\ [][Next]_vars

\* Up to MaxArgs archive paths, commands that may fail.
InitBatch == SMInit /\ ProbeInit /\ ProtoInit /\ ProgInit(1..MaxArgs, BOOLEAN, AnyStatus)

SpecBatch == InitBatch /\ [][Next]_vars

\* One archive path, commands that succeed, any staged tree and live system.
InitPackage == SMInit /\ ProbeInit /\ ProtoInit /\ ProgInit({1}, BOOLEAN, AnyTree)

SpecPackage == InitPackage /\ [][Next]_vars

\* ServiceManifest: one descriptor built, configured and rendered.
NextManifest ==
    \/ Construct
    \/ add_dependency
    \/ add_config_file
    \/ set_init_script
    \/ set_start_command
    \/ set_stop_command
    \/ set_refresh_command
    \/ set_restart_command
    \/ manifest_path

InitManifest == SMInit /\ ProbeInit /\ ProtoInit /\ ProgIdle

SpecManifest == InitManifest /\ [][NextManifest]_vars

\* Dispatch and construction: one archive path, from the dispatcher to the
\* constructed Package.
NextParse == DispatchArchive

InitParse == SMInit /\ ProbeInit /\ ProtoInit /\ ProgIdle

SpecParse == InitParse /\ [][NextParse]_vars

\* PrototypeFile: one object constructed, given slot calls and closed.
NextPrototype ==
    \/ NewPrototypeFile
    \/ preinstall
    \/ postinstall
    \/ preremove
    \/ postremove
    \/ include
    \/ ClosePrototypeFile

InitPrototype == SMInit /\ ProbeInit /\ ProtoInit /\ ProgIdle

SpecPrototype == InitPrototype /\ [][NextPrototype]_vars

\* ServiceManifest: several descriptors alive at once, their lists extended.
NextDescriptors ==
    \/ Construct
    \/ ConstructAnother
    \/ add_dependency
    \/ add_config_file

InitDescriptors == SMInit /\ ProbeInit /\ ProtoInit /\ ProgIdle

SpecDescriptors == InitDescriptors /\ [][NextDescriptors]_vars

----------------------------------------------------------------------------
(* Properties *)

\* C10: a descriptor with both start and stop commands and a legacy init script
\* renders exactly the start, stop, refresh and restart methods, each with a
\* command built from the commands set on the descriptor (the start and stop
\* commands as set, refresh and restart as set or as the two joined); a
\* descriptor with neither start+stop commands nor an init script renders no
\* exec_method fragment.
C10_CommandsTakePrecedence ==
    rendered # None =>
      LET d == rendered[1].of
          m == ExecMethods(rendered[1].text)
          hasCommands == d.start_command # None /\ d.stop_command # None
          hasScript   == d.init_script # None /\ d.init_script[1] # <<>>
          joined      == d.start_command[1].command \o <<"; ">> \o d.stop_command[1].command
      IN  /\ (hasCommands /\ hasScript) =>
                /\ [i \in 1..Len(m) |-> m[i].name] = <<"start", "stop", "refresh", "restart">>
                /\ m[1].command = d.start_command[1].command
                /\ m[2].command = d.stop_command[1].command
                /\ m[3].command = IF d.refresh_command # None
                                  THEN d.refresh_command[1].command ELSE joined
                /\ m[4].command = IF d.restart_command # None
                                  THEN d.restart_command[1].command ELSE joined
          /\ (~hasCommands /\ ~hasScript) => m = <<>>

\* C10's case: a descriptor holding commands and a script has been rendered.
C10_Witness ==
    /\ rendered # None
    /\ rendered[1].of.start_command # None
    /\ rendered[1].of.stop_command # None
    /\ rendered[1].of.init_script = Some(<<"/etc/init.d/svc">>)
    /\ ExecMethods(rendered[1].text) # <<>>

\* s is <name>-<version>.tar.<ext>: a name without digits, a dash, a version
\* of digits, dashes, dots and underscores, then .tar. and one of gz, bz2, xz.
IsArchiveName(s) ==
    \E i \in 1..Len(s), j \in 1..Len(s) :
      /\ i + 2 <= j
      /\ \A k \in 1..i : s[k] \notin Digits
      /\ s[i + 1] = "-"
      /\ \A k \in (i + 2)..j : s[k] \in VerChars
      /\ \E e \in Exts : SubSeq(s, j + 1, Len(s)) = s_dot_tar_dot \o e

\* C6: constructing a Package from a path of the form <name>-<version>.tar.<ext>
\* succeeds and leaves base = name + "-" + version, with a name and a version of
\* the shapes the form asks for; constructing it from any other path raises.
C6_ParseArchiveName ==
    probe # None =>
      LET path == probe[1].path
          r    == probe[1].result
      IN  /\ IsArchiveName(path) =>
                /\ r.exc = None
                /\ r.value.base = r.value.name \o s_dash \o r.value.version
                /\ r.value.base \o SubSeq(path, Len(r.value.base) + 1, Len(path)) = path
                /\ r.value.name # <<>> /\ r.value.version # <<>>
          /\ ~IsArchiveName(path) => r.exc # None

\* C7: the class constructed for a path is the one registered under key K
\* exactly when the path begins with K followed by a dash, and is the generic
\* Package when the path begins with no registered key followed by a dash.
C7_DispatchByKeyDash ==
    probe # None =>
      LET path == probe[1].path
          begins(K) == /\ Len(path) > Len(K)
                       /\ \A i \in 1..Len(K) : path[i] = K[i]
                       /\ path[Len(K) + 1] = "-"
      IN  /\ \A K \in Keys : (probe[1].cls = pkgmap(K)) <=> begins(K)
          /\ (\A K \in Keys : ~begins(K)) => probe[1].cls = "Package"

\* C7's case: a path that begins with a registered key, but not with the key
\* and a dash, was dispatched to the generic Package and constructed.
C7_Witness ==
    /\ probe # None
    /\ StartsWith(probe[1].path, k_glib)
    /\ ~StartsWith(probe[1].path, k_glib \o s_dash)
    /\ probe[1].cls = "Package"
    /\ probe[1].result.exc = None

Last(s) == s[Len(s)]

Range(s) == { s[i] : i \in 1..Len(s) }

\* The stages in the order of lines 663-677, with or without the two that
\* need /usr/bin/git.
StageOrder(git) ==
    IF git THEN <<"clean", "unpack", "prepare", "configure", "build",
                  "ignore_products", "package">>
    ELSE <<"clean", "unpack", "configure", "build", "package">>

IsPrefix(s, t) == Len(s) <= Len(t) /\ SubSeq(t, 1, Len(s)) = s

\* C1, as stated: a run that has returned has called the stages in the order
\* clean, unpack, prepare, configure, build, ignore_products, package, each
\* once, prepare and ignore_products only when git is installed.
C1_StagesOnceInOrder ==
    At("returned") => Top.trace = StageOrder(gitInstalled)

\* C1, amended: while a run is in its pipeline the stages called so far are
\* the first ones of that order; a run that has returned has called them all
\* in that order, once each, and then clean once more if it reported the
\* package built.
C1_StagesInOrderThenClean ==
    \A i \in 1..Len(stack) :
      LET f == stack[i]
      IN  IF f.pc = "returned"
          THEN f.trace = StageOrder(gitInstalled)
                           \o (IF Last(reports).outcome = "built" THEN <<"clean">>
                               ELSE <<>>)
          ELSE IF f.pc = "wrapup" THEN f.trace = StageOrder(gitInstalled)
          ELSE IsPrefix(f.trace, StageOrder(gitInstalled))

\* C1's case: without git a run has returned and reported the package built.
C1_Witness ==
    /\ At("returned")
    /\ ~gitInstalled
    /\ Last(reports).outcome = "built"
    /\ Len(Top.trace) = 6

\* C2: a command run through shell that ends with a non-zero status leaves
\* its run with an exception pending; from then on the run calls no stage and
\* runs no command, and when main is left the exception is pending in the
\* caller's run or has ended the process with status 1.
C2_ShellFailureAborts ==
    [][ \A i \in 1..Len(stack) :
          LET f == stack[i]
          IN  (f.cmds # <<>> /\ Last(f.cmds).status # 0) =>
                /\ f.exc = Some("Exception")
                /\ IF i <= Len(stack')
                   THEN /\ stack'[i].trace = f.trace
                        /\ stack'[i].cmds = f.cmds
                        /\ stack'[i].exc = f.exc
                   ELSE IF i = 1
                   THEN appState' = "exited" /\ exit_code' = Some(1)
                   ELSE stack'[i - 1].exc = f.exc ]_vars

\* C2's case: configure ended with a non-zero status and the run is being
\* left with the exception, build never called.
C2_Witness ==
    /\ At("raised")
    /\ Top.cmds # <<>>
    /\ Last(Top.cmds).status # 0
    /\ Last(Top.trace) = "configure"

\* C3: when the process ends, the loop has taken up every archive path of
\* the command line.
C3_EveryArchiveProcessed ==
    appState = "exited" => argi = nargs

\* C4: once a run has left the try and with blocks of main, by return or by
\* exception, the working directory and both streams are what they were when
\* main was called and the run's log is closed.
C4_StateRestoredOnExit ==
    (InRun /\ Top.pc \in {"wrapup", "returned", "raised"}) =>
      /\ cwd = Top.entry.cwd
      /\ sys_stdout = Top.entry.stdout
      /\ sys_stderr = Top.entry.stderr
      /\ Top.log \notin openLogs

\* C4's case: the run of ruby-enterprise is left by the sys.exit of its
\* configure stage, after the nested run and three changes of directory.
C4_Witness ==
    /\ At("raised")
    /\ Top.exc = Some("SystemExit")
    /\ Top.self.cls = "RubyEnterprise"
    /\ Top.path # <<>>

\* The tools the default stages cannot do without.
RequiredTools ==
    {"gzip", "bzip2", "xz", "tar", "chown", "configure", "make", "make install",
     "pkgproto", "pkgmk", "pkgtrans"}

\* C5: a run that has returned and reported its package built has seen none
\* of the required tools end with a non-zero status.  (Glib's own build stage,
\* which retries make, is left out.)
C5_NonZeroExitIsFatal ==
    (At("returned") /\ Last(reports).outcome = "built") =>
      /\ \A p \in Range(Top.procs) : p.cmd \in RequiredTools => p.status = 0
      /\ Top.self.cls # "Glib" =>
           \A c \in Range(Top.cmds) : c.cmd \in RequiredTools => c.status = 0

\* The line of the staging root in the output of pkgproto, whatever the
\* root's attributes.
RootLines ==
    { ProtoLine([Dir(<<>>) EXCEPT !.attr = a]) : a \in {Created, LiveSys, LiveBin} }

\* C8: the prototype of a run never holds the line of the staging root.
C8_NoRootLine ==
    \A i \in 1..Len(stack) : Range(stack[i].prototype.lines) \cap RootLines = {}

\* C8's case: pkgproto has listed a tree, the line of /usr is in the
\* prototype and the prototype is closed.
C8_Witness ==
    /\ At("mkpkg")
    /\ ~Top.prototype.open
    /\ ProtoLine(Dir(<<n_usr>>)) \in Range(Top.prototype.lines)
    /\ IncludeLine(s_pkginfo) \in Range(Top.prototype.lines)

\* C9: when pkgproto is about to list the tree, every staged directory below
\* the root has the attributes of the live directory of the same path, if
\* there is one, and otherwise those it was created with.
C9_DirectoriesInheritLive ==
    At("pkgproto") =>
      \A e \in staging :
        (e.type = "d" /\ e.path # <<>>) =>
          IF LiveIsDir(live, e.path) THEN e.attr = EntryAt(live, e.path)[1].attr
          ELSE e.attr = Created

\* C11: a rendered descriptor with start=(A,10), stop=(B,5) and neither a
\* refresh nor a restart command has the refresh and the restart method with
\* command "A; B" and timeout 15; whenever start and stop are set, a refresh
\* or restart command that was set is rendered with its own command and
\* timeout.
C11_DefaultRefreshRestart ==
    rendered # None =>
      LET d == rendered[1].of
          m == ExecMethods(rendered[1].text)
          A10 == Some([command |-> <<"A">>, timeout |-> 10])
          B5  == Some([command |-> <<"B">>, timeout |-> 5])
      IN  /\ (d.start_command = A10 /\ d.stop_command = B5 /\ d.refresh_command = None) =>
                m[3] = Method("refresh", <<"A", "; ", "B">>, 15)
          /\ (d.start_command = A10 /\ d.stop_command = B5 /\ d.restart_command = None) =>
                m[4] = Method("restart", <<"A", "; ", "B">>, 15)
          /\ (d.start_command # None /\ d.stop_command # None /\ d.refresh_command # None) =>
                m[3] = Method("refresh", d.refresh_command[1].command,
                              d.refresh_command[1].timeout)
          /\ (d.start_command # None /\ d.stop_command # None /\ d.restart_command # None) =>
                m[4] = Method("restart", d.restart_command[1].command,
                              d.restart_command[1].timeout)

\* C11's case: start=(A,10) and stop=(B,5) rendered with refresh left unset and
\* restart set.
C11_Witness ==
    /\ rendered # None
    /\ rendered[1].of.start_command = Some([command |-> <<"A">>, timeout |-> 10])
    /\ rendered[1].of.stop_command = Some([command |-> <<"B">>, timeout |-> 5])
    /\ rendered[1].of.refresh_command = None
    /\ rendered[1].of.restart_command # None
    /\ Len(ExecMethods(rendered[1].text)) = 4

\* C12: a rendered descriptor with start and stop commands and no refresh
\* (restart) command has the refresh (restart) method with the stop command
\* first and the start command second: "<stop>; <start>".
C12_StopBeforeStart ==
    rendered # None =>
      LET d == rendered[1].of
          m == ExecMethods(rendered[1].text)
          stopStart == d.stop_command[1].command \o <<"; ">> \o d.start_command[1].command
      IN  (d.start_command # None /\ d.stop_command # None) =>
            /\ d.refresh_command = None => m[3].command = stopStart
            /\ d.restart_command = None => m[4].command = stopStart

\* C13: a rendered descriptor without start+stop commands and with an init
\* script has the four methods start, stop, refresh and restart, and the command
\* of each is the script's path followed by the verb (stop and start, in that
\* order, for refresh and restart).
C13_InitScriptMethods ==
    rendered # None =>
      LET d == rendered[1].of
          m == ExecMethods(rendered[1].text)
          script == d.init_script[1]
      IN  (~(d.start_command # None /\ d.stop_command # None)
             /\ d.init_script # None /\ d.init_script[1] # <<>>) =>
            /\ [i \in 1..Len(m) |-> m[i].name] = <<"start", "stop", "refresh", "restart">>
            /\ m[1].command = script \o <<" start">>
            /\ m[2].command = script \o <<" stop">>
            /\ m[3].command = script \o <<" stop; ">> \o script \o <<" start">>
            /\ m[4].command = script \o <<" stop; ">> \o script \o <<" start">>

\* C14: no run raises the TypeError of the descriptor synthesis, and once the
\* install step of a package that had no descriptor attached has left an init
\* script named after the package under etc/init.d of the staging tree, the
\* staging tree holds the rendered manifest etc/svc/profile/<name>.xml and the
\* postinstall, preremove and postremove scripts have been started, as for an
\* attached descriptor.
C14_InitScriptSynthesized ==
    \A i \in 1..Len(stack) :
      LET f == stack[i]
          script == EntryAt(staging, <<n_etc, n_init_d, f.self.name>>)
      IN  /\ f.exc # Some("TypeError")
          /\ (f.pc \in {"walk", "pkgproto", "hooks", "mkpkg"}
                /\ script # None /\ script[1].type = "f") =>
               /\ EntryAt(staging, Append(ProfileDir, f.self.name \o s_dot_xml)) # None
               /\ {s_postinstall, s_preremove, s_postremove} \subseteq f.prototype.scripts

\* C15: every call of the default clean, whether or not the extracted
\* directory exists, returns without an exception and leaves no extracted
\* directory, and a second call right after it changes nothing.
C15_CleanIdempotent ==
    [][ ( /\ stack # <<>>
          /\ Len(stack') = Len(stack)
          /\ Top'.trace = Append(Top.trace, "clean")
          /\ Top.self.cls # "GooglePerftools" )
        => /\ Top'.exc = None
           /\ File(cwd', Top.self.base) \notin files'
           /\ clean(Top.self, cwd', files') = files' ]_vars

\* C15's case: clean has been called on an extracted tree that was there (the
\* tree had been entered and built in), and the tree is gone.
C15_Witness ==
    /\ At("returned")
    /\ Len(Top.trace) > 1
    /\ Last(Top.trace) = "clean"
    /\ Top.self.cls # "GooglePerftools"
    /\ TreeOf(Top) \notin files

\* C16: when <name>.xml is a file beside the archive, then for whichever
\* pipeline runs, once package() has staged a manifest, the manifest it took is
\* that file (not one rendered into TMPDIR from a descriptor) and the staging
\* tree holds it as etc/svc/profile/<name>.xml.
C16_SiblingManifestStaged ==
    At("install") =>
      LET f == Top
          sibling == File(f.saved_cwd, f.self.name \o s_dot_xml)
      IN  sibling \in files =>
            /\ f.self.manifest = Some([kind |-> "path", file |-> sibling])
            /\ EntryAt(staging, Append(ProfileDir, sibling.name)) # None

\* C17: when a top-level run of the default pipeline has ended, then: if it
\* announced success, the log and the extracted tree are gone, the artifact is
\* in the invocation directory and no longer in TMPDIR; if it failed, by an
\* exception or by the artifact missing, the log is still there, the extracted
\* tree is still there if the run had entered it, and the staging directory is
\* still there if the run had reached package().
C17_WrapUpOnlyOnSuccess ==
    (InRun /\ Len(stack) = 1 /\ Top.pc \in {"returned", "raised"}) =>
      LET f == Top
          succeeded == f.pc = "returned" /\ Last(reports).outcome = "built"
      IN  IF succeeded
          THEN /\ f.log \notin files
               /\ TreeOf(f) \notin files
               /\ ArtifactOf(f) \notin files
               /\ File(f.saved_cwd, ArtifactOf(f).name) \in files
          ELSE /\ f.log \in files
               /\ "configure" \in Range(f.trace) => TreeOf(f) \in files
               /\ "package" \in Range(f.trace) => staging # {}

\* The commands of the source-control tool that the pipeline waits for.
GitCommands == {"git init", "git add", "git commit", "git gc"}

\* C18: a run whose source-control command has just ended with a non-zero
\* status has no exception pending, and neither has a run whose git ls-files
\* ended with a non-zero status and that has called nothing since.
C18_GitFailureNotFatal ==
    \A i \in 1..Len(stack) :
      LET f == stack[i]
      IN  /\ (f.cmds # <<>> /\ Last(f.cmds).cmd \in GitCommands
                /\ Last(f.cmds).status # 0) => ~Failed(f)
          /\ (f.procs # <<>> /\ Last(f.procs).cmd = "git ls-files"
                /\ Last(f.procs).status # 0 /\ Last(f.trace) = "ignore_products")
               => ~Failed(f)

\* C19: no registered key followed by a dash matches at the start of another
\* registered key followed by a dash, so no path is matched by two keys; and
\* for every archive path dispatched, at most one key matches, the class
\* constructed is the only one any iteration order of the registry can select,
\* and it is the class of the matching key or else the generic Package.
C19_DispatchDeterministic ==
    /\ \A k1 \in Keys, k2 \in Keys : k1 # k2 => ~KeyMatches(k1, k2 \o s_dash)
    /\ probe # None =>
         LET path == probe[1].path
         IN  /\ Cardinality(MatchingKeys(path)) <= 1
             /\ Dispatch(path) = {probe[1].cls}
             /\ probe[1].cls = IF MatchingKeys(path) = {} THEN "Package"
                               ELSE pkgmap(CHOOSE key \in MatchingKeys(path) : TRUE)

\* C19's case: a path that begins with one key and a dash and holds another key
\* and a dash further on has been dispatched, to the class of the first.
C19_Witness ==
    /\ probe # None
    /\ KeyMatches(k_db, probe[1].path)
    /\ Contains(probe[1].path, k_glib \o s_dash)
    /\ probe[1].cls = "BerkeleyDB"
    /\ probe[1].result.exc = None

\* C20: no run is past a step while a subprocess that the step started is still
\* running: whenever a run is between two steps, every process it has started
\* has exited.
C20_NoSubprocessOutlivesItsStep ==
    \A i \in 1..Len(stack) :
      \A k \in 1..Len(stack[i].procs) : ~stack[i].procs[k].running

\* C21: between two steps of a run, the file TMPDIR/<name>.xml that package()
\* renders from a ServiceManifest does not exist: whichever way package() went
\* on after rendering it, it has been removed.
C21_TransientManifestRemoved ==
    \A i \in 1..Len(stack) :
      File(TMPDIR, stack[i].self.name \o s_dot_xml) \notin files

\* How often a step occurs in a sequence of steps.
Count(a, x) == Cardinality({ i \in 1..Len(a) : a[i] = x })

\* Every occurrence of x in a comes before every occurrence of y.
Before(a, x, y) == \A i \in 1..Len(a), j \in 1..Len(a) : (a[i] = x /\ a[j] = y) => i < j

\* C22: in the steps package() has taken, the extend hook occurs only for a
\* class that defines it, once, after install, the walk, pkgproto and the
\* pkginfo entry and before the prototype is closed; the edit hook occurs only
\* for a class that defines it, once, after the close and before pkginfo is
\* written and the packaging tools run; by the time the prototype is closed or
\* pkginfo written the hook the class defines has been called; and the staging
\* directory is removed only after pkgmk and pkgtrans have ended with status 0.
C22_AssemblyOrder ==
    \A i \in 1..Len(stack) :
      LET f == stack[i]
          a == f.assembly
          extends == f.self.cls = "Dovecot"
          edits   == f.self.cls = "Apcupsd"
      IN  /\ Count(a, "extend_prototype") <= (IF extends THEN 1 ELSE 0)
          /\ Count(a, "edit_prototype") <= (IF edits THEN 1 ELSE 0)
          /\ (extends /\ Count(a, "close") > 0) => Count(a, "extend_prototype") = 1
          /\ (edits /\ Count(a, "pkginfo") > 0) => Count(a, "edit_prototype") = 1
          /\ \A x \in {"install", "walk", "pkgproto", "include pkginfo"} :
               /\ Before(a, x, "extend_prototype")
               /\ Count(a, "extend_prototype") > 0 => Count(a, x) = 1
          /\ Before(a, "extend_prototype", "close")
          /\ Before(a, "close", "edit_prototype")
          /\ Before(a, "edit_prototype", "pkginfo")
          /\ Before(a, "edit_prototype", "mkpkg")
          /\ Before(a, "pkginfo", "mkpkg")
          /\ Before(a, "mkpkg", "rmtree")
          /\ Count(a, "rmtree") > 0 =>
               \E k \in 2..Len(f.cmds) :
                 /\ f.cmds[k - 1] = [cmd |-> "pkgmk", status |-> 0]
                 /\ f.cmds[k] = [cmd |-> "pkgtrans", status |-> 0]

\* C22's case: a class with a hook has gone through the whole of package().
C22_Witness ==
    /\ At("finally")
    /\ Top.self.cls = "Apcupsd"
    /\ Top.exc = None
    /\ Count(Top.assembly, "edit_prototype") = 1
    /\ Last(Top.assembly) = "rmtree"

\* C23: when package() is about to call install, then, if a manifest is
\* attached, the staging tree holds it under etc/svc/profile, make install has
\* not run, and the postinstall, preremove and postremove scripts hold one
\* line each after '#!/bin/sh' (import of the staged manifest, disable of the
\* service, delete of the service) and preinstall none; if no manifest is
\* attached, no script holds a line.
C23_LifecycleLinesQueued ==
    At("install") =>
      LET f == Top
          p == f.self
          text == f.prototype.text
          xml == p.name \o s_dot_xml
      IN  IF p.manifest # None
          THEN /\ EntryAt(staging, <<n_etc, n_svc, n_profile, xml>>) # None
               /\ EntryAt(staging, <<n_etc, n_svc, n_profile, xml>>)[1].type = "f"
               /\ \A k \in 1..Len(f.cmds) : f.cmds[k].cmd # "make install"
               /\ text[s_postinstall] =
                    <<s_shebang, <<"svccfg import /etc/svc/profile/">> \o xml>>
               /\ text[s_preremove] = <<s_shebang, <<"svcadm disable ">> \o p.name>>
               /\ text[s_postremove] = <<s_shebang, <<"svccfg delete ">> \o p.name>>
               /\ text[s_preinstall] = <<>>
          ELSE \A slot \in Slots : text[slot] = <<>>

\* C23's case: package() has staged the rendered manifest of a variant and is
\* about to call install.
C23_Witness ==
    /\ At("install")
    /\ Top.self.cls = "Ngircd"
    /\ Top.self.manifest # None
    /\ Top.prototype.scripts = {s_postinstall, s_preremove, s_postremove}

EndsWith(s, p) == Len(p) <= Len(s) /\ SubSeq(s, Len(s) - Len(p) + 1, Len(s)) = p

\* The decompression tool that corresponds to the extension of an archive
\* name.
ExtensionTool(s) ==
    IF EndsWith(s, s_dot_gz) THEN "gzip"
    ELSE IF EndsWith(s, s_dot_bz2) THEN "bzip2"
    ELSE IF EndsWith(s, s_dot_xz) THEN "xz"
    ELSE "none"

\* C24: the decompression process a run has started is the tool of the
\* archive's extension: gzip for .gz, bzip2 for .bz2, xz for .xz.
C24_ToolByExtension ==
    \A i \in 1..Len(stack) :
      LET f == stack[i]
      IN  (f.procs # <<>> /\ f.self.cls # "GooglePerftools") =>
            f.procs[1].cmd = ExtensionTool(f.self.tarball)

\* C25: a run that failed the assertion on the archive file has started no
\* process and called no stage after unpack; a run whose unpack has been
\* called without the tool of the archive's extension installed has an
\* exception pending, has started no process and has called no stage after
\* unpack; and a run that has called configure and is not over yet has its
\* extracted directory.
C25_PreconditionFailuresStop ==
    \A i \in 1..Len(stack) :
      LET f == stack[i]
          stopped == /\ Failed(f)
                     /\ f.procs = <<>>
                     /\ f.cmds = <<>>
                     /\ f.trace = <<"clean", "unpack">>
      IN  f.self.cls # "GooglePerftools" =>
            /\ f.exc = Some("AssertionError") => stopped
            /\ ("unpack" \in Range(f.trace)
                  /\ ToolFile(ExtensionTool(f.self.tarball)) \notin files) => stopped
            /\ ("configure" \in Range(f.trace) /\ f.pc # "returned")
                  => TreeOf(f) \in files

\* The lines queued for a slot, in the order of the calls.
RECURSIVE Queued(_, _)
Queued(calls, slot) ==
    IF calls = <<>> THEN <<>>
    ELSE (IF calls[1].slot = slot THEN <<calls[1].line>> ELSE <<>>)
           \o Queued(Tail(calls), slot)

\* C26: after close(), for each of the four slots: if at least one line was
\* queued for it, its script exists, begins with '#!/bin/sh', continues with
\* the queued lines in the order of the calls, is executable, and the
\* prototype holds exactly one 'i <slot>' line; if none was queued, the script
\* does not exist, is not executable, and the prototype holds no such line.
C26_SlotScripts ==
    (pf # None /\ ~pf[1].open) =>
      \A slot \in Slots :
        LET queued == Queued(pfCalls, slot)
            listed == Count(pf[1].lines, IncludeLine(slot))
        IN  IF queued # <<>>
            THEN /\ pf[1].text[slot] = <<s_shebang>> \o queued
                 /\ slot \in pf[1].executable
                 /\ listed = 1
            ELSE /\ pf[1].text[slot] = <<>>
                 /\ slot \notin pf[1].executable
                 /\ listed = 0

\* C26's case: a closed prototype with two lines queued for one slot, one for
\* another, and none for the remaining two.
C26_Witness ==
    /\ pf # None
    /\ ~pf[1].open
    /\ Len(Queued(pfCalls, s_postinstall)) = 2
    /\ Queued(pfCalls, s_postinstall)[1] # Queued(pfCalls, s_postinstall)[2]
    /\ Len(Queued(pfCalls, s_preremove)) = 1

\* C27: the walk of package() leaves the live system as it found it: every
\* directory of the live system has the owner, group and mode it had before
\* the walk.
C27_LiveTreeUntouched == live \in LiveSystems

\* C28: in every run, a command that has returned a non-zero status is not
\* invoked again later in the same run.
C28_NoFailedCommandRepeated ==
    \A i \in 1..Len(stack) :
      LET cmds == stack[i].cmds
      IN  \A k, m \in 1..Len(cmds) :
            (k < m /\ cmds[k].status # 0) => cmds[m].cmd # cmds[k].cmd

\* C29: a call of add_dependency or add_config_file changes the dependencies
\* and config_files of at most one of the existing descriptors, and a
\* descriptor constructed with a default list argument has the default:
\* ['filesystem'] for dependencies, [] for config_files.
C29_NoSharedLists ==
    [][ /\ (descs' = descs /\ lists' # lists) =>
              Cardinality({ i \in 1..Len(descs) :
                              Deref(descs[i], lists') # Deref(descs[i], lists) }) <= 1
        /\ (Len(descs') = Len(descs) + 1) =>
              LET o == descs'[Len(descs')]
              IN  /\ o.dependencies = DefaultDepsRef =>
                       lists'[o.dependencies] = <<"filesystem">>
                  /\ o.config_files = DefaultCfgsRef =>
                       lists'[o.config_files] = <<>> ]_vars

====
